---- MODULE Spec2Model ----
(***************************************************************************)
(* A model of fxbg-event-feeds: the cached, retrying HTTP client of        *)
(* src/src/sources.py (req_with_cache, _cache_key, load_cache, save_cache, *)
(* robots_allowed), the adapters that call it, and the normalizer of       *)
(* src/src/main.py.                                                        *)
(*                                                                         *)
(* Text is modelled as a sequence of tokens (a token stands for one or     *)
(* more characters), so that concatenation, splitting and prefix tests are *)
(* computed and not assumed.                                               *)
(***************************************************************************)
EXTENDS Integers, Sequences, FiniteSets, TLC

\* ------------------------------------------------------------------ bounds

\* time.time() at the moment an entry is stored is drawn from 0..MaxTime.
MaxTime == 1

\* When calls overlap, each worker starts at most MaxConcCalls calls.
MaxConcCalls == 1

\* A run of main() fetches at most MaxSources configured sources.
MaxSources == 1

\* A crawl visits at most MaxPages listing pages (the code: 3 discovery pages,
\* 10 listing-site start pages).
MaxPages == 2
\* The runs of main() over the same sources and cache file.
MaxRuns == 2
\* main() is started again only on a cache of at most MaxCached entries.
MaxCached == 1

\* ------------------------------------------------------ program constants

\* req_with_cache(..., max_retries=3): no caller passes another value.
MaxRetries == 3
\* backoff = min(backoff * 2, 30)
BackoffCap == 30
\* "body": body[:500000]
BodyCap == 500000
\* first_statuses[:3]: the listing pages whose status decides the fallback.
FirstStatuses == 3

\* ------------------------------------------------------------ text helpers

\* Python's d.get(k, default) on a dict modelled as a function.
DictGet(d, k, default) == IF k \in DOMAIN d THEN d[k] ELSE default

\* The empty dict {}.
EmptyDict == [k \in {} |-> k]

\* The empty string "".
EmptyStr == << >>

\* A response body: its text (an identifier of the content) and its length in
\* characters.  "" is the body of length 0.
EmptyBody == [text |-> EmptyStr, len |-> 0]

Min(a, b) == IF a <= b THEN a ELSE b

\* body[:n]: the first n characters.  The prefix of a content is identified by
\* the content and the prefix length.
Truncate(body, n) == IF body.len <= n THEN body ELSE [text |-> body.text, len |-> n]

\* ---------------------------------------------------------------- inputs

\* Network URLs, as <<scheme, host, path>>.
UrlA == <<"https://", "ex.org", "/a">>
UrlB == <<"https://", "ex.org", "/b">>
\* data: URLs, as token sequences data:[<mediatype>][;base64],<data>.
\* "QUJD" is a whole base64 quad (decodes to ABC); "QQ" is half a quad with its
\* padding missing; "%41" is a percent escape of the letter A.
DataUrls ==
  { <<"data:", "text/calendar", ",", "BEGIN", "%41">>,
    <<"data:", "text/calendar", ";base64", ",", "QUJD">>,
    <<"data:", "text/calendar", ";BASE64", ",", "QUJD", "QQ">>,
    <<"data:", "text/calendar", ";base64", ",", "QQ", "=", "=">>,
    <<"data:", "text/calendar", ";base64">>,
    <<"data:", ",">> }

\* The headers dicts callers pass: Authorization and User-Agent values are
\* strings (sequences of characters) that may contain any character.
HdrAB_C == ("Authorization" :> <<"a", "|", "b">>) @@ ("User-Agent" :> <<"c">>)
HdrA_BC == ("Authorization" :> <<"a">>) @@ ("User-Agent" :> <<"b", "|", "c">>)
HdrC    == ("User-Agent" :> <<"c">>)

\* The (url, headers) pairs req_with_cache is called with.
Requests ==
  { <<UrlA, HdrAB_C>>, <<UrlA, HdrA_BC>>, <<UrlB, HdrC>> }
  \cup { <<d, HdrC>> : d \in DataUrls }

\* The throttle windows the callers pass: (2, 5) is the default.
Throttles == { <<1, 2>>, <<1, 3>>, <<2, 5>> }

\* What session.get can produce: a response, or a requests.RequestException.
RetryableStatus == {429, 500, 502, 503, 504}
OtherStatus == {403, 404}
\* <<"None">> stands for Python's None: the response has no such header.
Responses200 ==
  { [status |-> 200, ETag |-> <<"e1">>, LastModified |-> <<"m1">>, text |-> [text |-> <<"doc1">>, len |-> 3]],
    [status |-> 201, ETag |-> <<"None">>, LastModified |-> <<"None">>, text |-> [text |-> <<"doc2">>, len |-> BodyCap + 1]],
    [status |-> 200, ETag |-> <<"None">>, LastModified |-> <<"None">>, text |-> [text |-> <<"doc3">>, len |-> 3]] }
\* ------------------------------------------------------------------ state

VARIABLES
  budget, \* per worker, the calls it may still start when calls overlap
  file,   \* data/cache.json: exists, torn (opened for writing, not yet dumped),
          \* data (the "http_cache" map, key -> entry); by is history: the
          \* request (url, Authorization, User-Agent) that stored each entry
  call,   \* per worker, the activation of req_with_cache: its position (pc),
          \* arguments, locals and pending return value; gets/loads/saves count
          \* the session.get, load_cache and save_cache calls it made, slept is
          \* the total time.sleep(backoff), polite the jitter_sleep it applied,
          \* pre the store's content when it was entered
  net,    \* history: the host of the last network request of this adapter run
          \* and what happened since its answer: "none" (no request yet),
          \* "delayed" (a sleep has elapsed), "nodelay304" (the answer was 304,
          \* no sleep since), "nodelay" (another answer, no sleep since)
  cfg,    \* main(): the configured sources not fetched yet
  adp,    \* the running adapter: its position, the requests it still makes,
          \* what it found (links, first200, seen, pw), the records it
          \* collected (out) and, once it ended, how (res)
  gated,  \* history: the URLs robots_allowed answered allow for, in this
          \* adapter run
  norm,   \* the activation of normalize_event: its position (pc), the raw
          \* record, the wall clock, its locals and its return value
  pipe    \* main() after the fetching: its position, the raw records still to
          \* normalize (collected), the events kept so far (norm), the
          \* configuration, the wall clock and the events written; while
          \* the sources are fetched: the configured sources and the number
          \* of the run

vars == <<budget, file, call, net, cfg, adp, gated, norm, pipe>>

\* Worker 1 is the program (main.py fetches one source after the other);
\* worker 2 is a second caller whose call overlaps in time.
Workers == {1, 2}

\* ------------------------------------------------- load_cache / save_cache

\* load_cache(): the parsed file; {"http_cache": {}} when the file is missing
\* or json.load raises (an empty or partly written file).
load_cache(f) ==
  IF f.exists /\ ~f.torn THEN f.data ELSE EmptyDict

\* History companion of load_cache: who stored the entries that were loaded.
load_by(f) ==
  IF f.exists /\ ~f.torn THEN f.by ELSE EmptyDict

\* open(CACHE_PATH, "w"): the file exists and is truncated.
OpenForWrite(f) == [f EXCEPT !.exists = TRUE, !.torn = TRUE]

\* json.dump(cache, ...): the file holds the dumped map.
save_cache(cache, by) == [exists |-> TRUE, torn |-> FALSE, data |-> cache, by |-> by]

\* -------------------------------------------------------------- _cache_key

\* hashlib.sha1(...).hexdigest(), assumed free of collisions: one token that
\* identifies the hashed string.
Sha1Hex(s) == <<"sha1", s>>

\* url + "||" + sha1(auth + "|" + ua)
cache_key(u, h) ==
  LET auth == DictGet(h, "Authorization", EmptyStr)
      ua   == DictGet(h, "User-Agent", EmptyStr)
  IN  Append(u \o <<"|", "|">>, Sha1Hex(auth \o <<"|">> \o ua))

\* The identity a request is made under, as the claim means it: URL,
\* Authorization and User-Agent (an absent header is the empty string).
Identity(u, h) ==
  [url |-> u,
   Authorization |-> DictGet(h, "Authorization", EmptyStr),
   UserAgent |-> DictGet(h, "User-Agent", EmptyStr)]

\* ----------------------------------------------------------- data: URLs

\* urllib.parse.urlsplit(url).netloc of a network URL.
HostOf(u) == IF Len(u) >= 2 THEN u[2] ELSE ""

\* url.startswith("data:")
IsDataUrl(u) == Len(u) > 0 /\ u[1] = "data:"

\* The position of the first comma, 0 when there is none.
FirstComma(u) ==
  IF \E i \in 1..Len(u) : u[i] = ","
  THEN CHOOSE i \in 1..Len(u) : u[i] = "," /\ \A j \in 1..(i - 1) : u[j] # ","
  ELSE 0

\* str.lower() of one token.
Lower(tok) == IF tok = ";BASE64" THEN ";base64" ELSE tok

\* urllib.parse.unquote_to_bytes of one token: %41 is the letter A.
Unquote(tok) == IF tok = "%41" THEN "A" ELSE tok

\* The number of base64 alphabet characters of a token (= is padding, not
\* alphabet).
B64Chars(tok) ==
  CASE tok = "QUJD"  -> 4
    [] tok = "QQ"    -> 2
    [] tok = "A"     -> 1
    [] tok = "BEGIN" -> 5
    [] OTHER         -> 0

RECURSIVE SumB64(_)
SumB64(s) == IF s = << >> THEN 0 ELSE B64Chars(Head(s)) + SumB64(Tail(s))

RECURSIVE SumPad(_)
SumPad(s) == IF s = << >> THEN 0 ELSE (IF Head(s) = "=" THEN 1 ELSE 0) + SumPad(Tail(s))

StrLen(s) == SumB64(s) + SumPad(s)

\* base64.b64decode(bytes) (not validating): [ok, body].  It raises
\* binascii.Error when the data characters do not fill whole quads and the
\* padding does not complete the last one.
B64Decode(raw) ==
  LET n    == SumB64(raw)
      pads == SumPad(raw)
      r    == n % 4
      ok   == \/ r = 0
              \/ r = 2 /\ pads >= 2
              \/ r = 3 /\ pads >= 1
  IN  [ok |-> ok,
       body |-> [text |-> <<"b64">> \o raw,
                 len |-> (n \div 4) * 3 + (IF r = 0 THEN 0 ELSE r - 1)]]

\* The result triple (status, body, metadata) req_with_cache returns; raised
\* says an exception left the function instead.
Result(status, body, meta) == [raised |-> FALSE, status |-> status, body |-> body, meta |-> meta]
Raised == [raised |-> TRUE, status |-> 0, body |-> EmptyBody, meta |-> EmptyDict]

\* DecodeDataUrl without its handlers: the ValueError of the unpacking and the
\* binascii.Error of the decoding leave the function.
DecodeDataUrl_unhandled(u) ==
  LET c == FirstComma(u) IN
  IF c = 0
  THEN Raised
  ELSE
    LET meta      == SubSeq(u, 1, c - 1)
        data_part == SubSeq(u, c + 1, Len(u))
        is_base64 == \E i \in 1..Len(meta) : Lower(meta[i]) = ";base64"
        raw_bytes == [i \in 1..Len(data_part) |-> Unquote(data_part[i])]
        dec       == B64Decode(raw_bytes)
    IN  IF is_base64
        THEN IF dec.ok THEN Result(200, dec.body, EmptyDict) ELSE Raised
        ELSE Result(200, [text |-> raw_bytes, len |-> StrLen(raw_bytes)], EmptyDict)

\* The data: fast path of req_with_cache.
DecodeDataUrl(u) ==
  LET c == FirstComma(u) IN
  IF c = 0
  THEN Result(400, EmptyBody, EmptyDict)          \* ValueError on unpacking
  ELSE
    LET meta      == SubSeq(u, 1, c - 1)
        data_part == SubSeq(u, c + 1, Len(u))
        is_base64 == \E i \in 1..Len(meta) : Lower(meta[i]) = ";base64"
        raw_bytes == [i \in 1..Len(data_part) |-> Unquote(data_part[i])]
        dec       == B64Decode(raw_bytes)
    IN  IF is_base64
        THEN IF dec.ok THEN Result(200, dec.body, EmptyDict)
                       ELSE Result(400, EmptyBody, EmptyDict)   \* except Exception
        ELSE Result(200, [text |-> raw_bytes, len |-> StrLen(raw_bytes)], EmptyDict)

\* --------------------------------------------------------- req_with_cache

\* A worker that is not inside req_with_cache.
IdleCall ==
  [pc |-> "idle", url |-> EmptyStr, headers |-> EmptyDict, throttle |-> <<0, 0>>,
   cache |-> EmptyDict, cacheBy |-> EmptyDict, key |-> EmptyStr, entry |-> EmptyDict,
   attempt |-> 0, backoff |-> 0, ret |-> Result(0, EmptyBody, EmptyDict),
   gets |-> 0, loads |-> 0, saves |-> 0, slept |-> 0, polite |-> 0,
   pre |-> EmptyDict]

\* headers["If-None-Match"] = entry["etag"] and
\* headers["If-Modified-Since"] = entry["last_modified"], for the fields the
\* entry has.
WithConditional(h, e) ==
  LET h1 == IF "etag" \in DOMAIN e THEN ("If-None-Match" :> e.etag) @@ h ELSE h
  IN  IF "last_modified" \in DOMAIN e
      THEN ("If-Modified-Since" :> e.last_modified) @@ h1
      ELSE h1

\* StoredEntry with the whole body stored (the [:500000] forgotten).
StoredEntry_untruncated(o, t) ==
  [etag |-> o.ETag, last_modified |-> o.LastModified, fetched_at |-> t, body |-> o.text]

\* The entry written for a 200/201 response o at time t.
StoredEntry(o, t) ==
  [etag |-> o.ETag, last_modified |-> o.LastModified, fetched_at |-> t,
   body |-> Truncate(o.text, BodyCap)]

\* NotModifiedBody answering the empty body whatever the entry holds.
NotModifiedBody_empty(e) == EmptyBody

\* entry.get("body", ""): what a 304 returns.
NotModifiedBody(e) == DictGet(e, "body", EmptyBody)

\* AttemptsLeft off by one: range(max_retries + 1).
AttemptsLeft_one_more(n) == n <= MaxRetries

\* for attempt in range(max_retries): another iteration is due.
AttemptsLeft(n) == n < MaxRetries

\* backoff = min(backoff * 2, 30)
NextBackoff(b) == Min(b * 2, BackoffCap)

\* jitter_sleep(lo, hi): a delay drawn from the window [lo, hi].
JitterWindow(lo, hi) == lo..hi

\* The data: fast path: no cache, no network.
ReqData(w, u, h, t) ==
  /\ call[w].pc = "idle"
  /\ IsDataUrl(u)
  /\ call' = [call EXCEPT ![w] =
       [IdleCall EXCEPT !.pc = "ret", !.url = u, !.headers = h, !.throttle = t,
                        !.pre = file.data, !.ret = DecodeDataUrl(u)]]

\* Lines 119-129: load the cache, look the entry up, add the conditional
\* headers.
ReqLoad(w, u, h, t) ==
  /\ call[w].pc = "idle"
  /\ ~IsDataUrl(u)
  /\ LET cache == load_cache(file)
         key   == cache_key(u, h)
         entry == DictGet(cache, key, EmptyDict)
     IN  call' = [call EXCEPT ![w] =
           [IdleCall EXCEPT !.pc = "get", !.url = u, !.throttle = t,
                            !.cache = cache, !.cacheBy = load_by(file),
                            !.key = key, !.entry = entry,
                            !.headers = WithConditional(h, entry),
                            !.attempt = 0, !.backoff = 1, !.loads = 1,
                            !.pre = file.data]]

\* session.get answered 304.
On304(w) ==
  /\ call[w].pc = "get" /\ AttemptsLeft(call[w].attempt)
  /\ call' = [call EXCEPT ![w].pc = "ret",
                          ![w].gets = @ + 1,
                          ![w].ret = Result(304, NotModifiedBody(call[w].entry), EmptyDict)]
  /\ net' = [last |-> "nodelay304", host |-> HostOf(call[w].url)]
  /\ UNCHANGED <<pipe, norm, budget, file, cfg, adp, gated>>

\* session.get answered 200 or 201: the entry is put into the loaded map.
On200(w) ==
  /\ call[w].pc = "get" /\ AttemptsLeft(call[w].attempt)
  /\ \E o \in Responses200, t \in 0..MaxTime :
       call' = [call EXCEPT
         ![w].pc = "save",
         ![w].gets = @ + 1,
         ![w].cache = (call[w].key :> StoredEntry(o, t)) @@ @,
         ![w].cacheBy = (call[w].key :> Identity(call[w].url, call[w].headers)) @@ @,
         ![w].ret = Result(o.status, o.text,
                           [etag |-> o.ETag, last_modified |-> o.LastModified])]
  /\ net' = [last |-> "nodelay", host |-> HostOf(call[w].url)]
  /\ UNCHANGED <<pipe, norm, budget, file, cfg, adp, gated>>

\* session.get answered 429/500/502/503/504, or raised a
\* requests.RequestException: sleep the backoff, double it, next attempt.
OnRetry(w) ==
  /\ call[w].pc = "get" /\ AttemptsLeft(call[w].attempt)
  /\ call' = [call EXCEPT ![w].gets = @ + 1,
                          ![w].slept = @ + call[w].backoff,
                          ![w].backoff = NextBackoff(@),
                          ![w].attempt = @ + 1]
  /\ net' = [last |-> "delayed", host |-> HostOf(call[w].url)]
  /\ UNCHANGED <<pipe, norm, budget, file, cfg, adp, gated>>

\* session.get answered another status: returned at once, empty body.
OnOther(w) ==
  /\ call[w].pc = "get" /\ AttemptsLeft(call[w].attempt)
  /\ \E s \in OtherStatus :
       call' = [call EXCEPT ![w].pc = "ret",
                            ![w].gets = @ + 1,
                            ![w].ret = Result(s, EmptyBody, EmptyDict)]
  /\ net' = [last |-> "nodelay", host |-> HostOf(call[w].url)]
  /\ UNCHANGED <<pipe, norm, budget, file, cfg, adp, gated>>

\* The loop ended: return 599, "", {}.
Exhausted(w) ==
  /\ call[w].pc = "get" /\ ~AttemptsLeft(call[w].attempt)
  /\ call' = [call EXCEPT ![w].pc = "ret",
                          ![w].ret = Result(599, EmptyBody, EmptyDict)]
  /\ UNCHANGED <<pipe, norm, budget, file, net, cfg, adp, gated>>

\* save_cache, first half: open(CACHE_PATH, "w") truncates the file.
SaveOpen(w) ==
  /\ call[w].pc = "save"
  /\ file' = OpenForWrite(file)
  /\ call' = [call EXCEPT ![w].pc = "dump"]
  /\ UNCHANGED <<pipe, norm, budget, net, cfg, adp, gated>>

\* save_cache, second half: json.dump writes the worker's whole map.
SaveDump(w) ==
  /\ call[w].pc = "dump"
  /\ file' = save_cache(call[w].cache, call[w].cacheBy)
  /\ call' = [call EXCEPT ![w].pc = "sleep", ![w].saves = @ + 1]
  /\ UNCHANGED <<pipe, norm, budget, net, cfg, adp, gated>>

\* jitter_sleep(throttle[0], throttle[1]), then return.
JitterSleep(w) ==
  /\ call[w].pc = "sleep"
  /\ \E d \in JitterWindow(call[w].throttle[1], call[w].throttle[2]) :
       call' = [call EXCEPT ![w].pc = "ret", ![w].polite = d]
  /\ net' = [last |-> "delayed", host |-> HostOf(call[w].url)]
  /\ UNCHANGED <<pipe, norm, budget, file, cfg, adp, gated>>

\* ------------------------------------------------------- specifications

NoUrl == << >>
NoGate == [url |-> NoUrl, outcome |-> "none", verdict |-> TRUE]
NoAdapter == [pc |-> "main", plan |-> << >>, i |-> 0, hdr |-> EmptyDict,
              got200 |-> FALSE, gate |-> NoGate, links |-> FALSE,
              first200 |-> FALSE, seen |-> 0, pw |-> "no", out |-> << >>,
              res |-> "none"]
NoNet == [last |-> "none", host |-> ""]

\* A field of a raw record: None, a text, a number or a datetime.
NoneField == [kind |-> "none"]
Txt(s) == [kind |-> "text", v |-> s]
Num(n) == [kind |-> "int", v |-> n]
Inst(i) == [kind |-> "instant", v |-> i]

NoRaw ==
  [title |-> NoneField, description |-> NoneField, location |-> NoneField,
   link |-> NoneField, start |-> NoneField, end |-> NoneField,
   source |-> NoneField]
\* main() has not reached the normalizing of the collected records.
NoPipe == [pc |-> "off"]

NormIdle ==
  [pc |-> "off", raw |-> NoRaw,
   now |-> [y |-> 0, mo |-> 0, d |-> 0, h |-> 0, mi |-> 0, s |-> 0, tz |-> "none"],
   title |-> EmptyStr,
   desc |-> EmptyStr, loc |-> EmptyStr, sdt |-> NoneField, edt |-> NoneField,
   raised |-> FALSE, ret |-> NoneField,
   first |-> [kind |-> "unset"]]

Init ==
  /\ budget = [w \in Workers |-> MaxConcCalls]
  /\ file = [exists |-> FALSE, torn |-> FALSE, data |-> EmptyDict, by |-> EmptyDict]
  /\ call = [w \in Workers |-> IdleCall]
  /\ net = NoNet
  /\ cfg = << >>
  /\ adp = NoAdapter
  /\ gated = {}
  /\ norm = NormIdle
  /\ pipe = NoPipe

\* A call of req_with_cache by the one caller, with any of the arguments.
EnterData ==
  /\ \E r \in Requests, t \in Throttles : ReqData(1, r[1], r[2], t)
  /\ UNCHANGED <<pipe, norm, budget, file, net, cfg, adp, gated>>

EnterLoad ==
  /\ \E r \in Requests, t \in Throttles : ReqLoad(1, r[1], r[2], t)
  /\ UNCHANGED <<pipe, norm, budget, file, net, cfg, adp, gated>>

\* The caller takes the result.
Return(w) ==
  /\ call[w].pc = "ret"
  /\ call' = [call EXCEPT ![w] = IdleCall]
  /\ UNCHANGED <<pipe, norm, budget, file, net, cfg, adp, gated>>

\* The client under one caller: calls follow one another.
Next ==
  \/ EnterData
  \/ EnterLoad
  \/ On304(1)
  \/ On200(1)
  \/ OnRetry(1)
  \/ OnOther(1)
  \/ Exhausted(1)
  \/ SaveOpen(1)
  \/ SaveDump(1)
  \/ JitterSleep(1)
  \/ Return(1)

Spec == Init /\ [][Next]_vars

\* A call by one of two callers whose calls overlap; each starts at most
\* MaxConcCalls calls.
EnterConc(w) ==
  /\ budget[w] > 0
  /\ \E r \in Requests : ReqLoad(w, r[1], r[2], <<1, 2>>)
  /\ budget' = [budget EXCEPT ![w] = @ - 1]
  /\ UNCHANGED <<pipe, norm, file, net, cfg, adp, gated>>

NextConc ==
  \E w \in Workers :
    \/ EnterConc(w)
    \/ On304(w)
    \/ On200(w)
    \/ OnRetry(w)
    \/ OnOther(w)
    \/ Exhausted(w)
    \/ SaveOpen(w)
    \/ SaveDump(w)
    \/ JitterSleep(w)
    \/ Return(w)

SpecConc == Init /\ [][NextConc]_vars

\* --------------------------------------------------------- robots_allowed

\* What fetching <host>/robots.txt with RobotFileParser.read() can meet.
RobotsOutcomes ==
  { "ok_allow", "ok_disallow", "http_401", "http_403", "http_404", "http_503",
    "url_error", "decode_error" }

\* The allow-list shortcuts of robots_allowed: Macaroni KID per-event .ics,
\* Eventbrite /d/ and /e/ pages, the allow-listed substrings.
RobotsShortcut(u) ==
  \/ HostOf(u) = "fredericksburg.macaronikid.com" /\ u[Len(u)] = ".ics"
  \/ HostOf(u) = "www.eventbrite.com" /\ \E i \in 3..Len(u) : u[i] \in {"/d/", "/e/"}
  \/ \E i \in 1..Len(u) :                        \* ALLOWLIST_SUBSTR
       u[i] \in { "/common/modules/iCalendar/iCalendar.aspx", "/calendar/1.xml",
                  "/events/?ical=1", "/events/feed" }

\* rp.read(): urlopen of robots.txt.  An HTTPError is handled inside read():
\* 401/403 set disallow_all, other 4xx set allow_all, 5xx sets nothing.  Any
\* other error (URLError, UnicodeDecodeError) leaves read().  parse() marks
\* the policy as read (last_checked).
RpRead(o) ==
  [raised       |-> o \in {"url_error", "decode_error"},
   disallow_all |-> o \in {"http_401", "http_403"},
   allow_all    |-> o = "http_404",
   last_checked |-> o \in {"ok_allow", "ok_disallow"},
   rules_allow  |-> o # "ok_disallow"]

\* rp.can_fetch(user_agent, url)
RpCanFetch(rp) ==
  IF rp.disallow_all THEN FALSE
  ELSE IF rp.allow_all THEN TRUE
  ELSE IF ~rp.last_checked THEN FALSE
  ELSE rp.rules_allow

\* robots_allowed(url): the answer, with o what the policy fetch meets.
robots_allowed(u, o) ==
  IF IsDataUrl(u) THEN TRUE
  ELSE IF RobotsShortcut(u) THEN TRUE
  ELSE LET rp == RpRead(o) IN
       IF rp.raised THEN TRUE          \* except Exception: return True
       ELSE RpCanFetch(rp)

\* The record of one gate check: outcome is "none" when no policy was fetched.
GateCheck(u, o) ==
  [url |-> u,
   outcome |-> IF IsDataUrl(u) \/ RobotsShortcut(u) THEN "none" ELSE o,
   verdict |-> robots_allowed(u, o)]

\* ---------------------------------------------------------------- adapters

\* _with_page(u, n): the URL with page=n in its query.
WithPage(u, n) == u \o <<"?page=", ToString(n)>>

\* One request of an adapter: the URL robots_allowed is asked about first
\* (NoUrl: not asked), the URL fetched with req_with_cache (NoUrl: none), the
\* headers and throttle passed, need200 (the adapter returns [] unless the
\* answer is 200 with a body), shared (the headers dict is one object used for
\* all such requests of the adapter), and when the request is made: "always",
\* "any200" (an earlier request of the adapter got 200 with a body), "prev200"
\* (the previous one did), "links" (detail links were found), "nolinks" (none
\* was), "fallback" (none was, or none of the first listing pages answered
\* 200).  role says what the adapter does with a 200 body: "feed" parses it
\* into records, "list" collects its detail links, "detail" parses the one
\* event of an Eventbrite page, "page" takes no record from it.  A step of
\* role "headless_return" or "headless_try" fetches nothing through
\* req_with_cache: it is a call of the Playwright crawler.
Step(g, u, h, t, n) ==
  [gate |-> g, url |-> u, hdr |-> h, thr |-> t, need200 |-> n,
   shared |-> FALSE, when |-> "always", role |-> IF n THEN "feed" ELSE "page"]

fetch_rss(u) == << Step(u, u, HdrC, <<2, 5>>, TRUE) >>

fetch_ics(u) == << Step(u, u, HdrC, <<2, 5>>, TRUE) >>

\* The page, then the ICS behind its "Download Calendar" link.
fetch_thrillshare_ical(u) ==
  << [Step(u, u, HdrC, <<1, 3>>, TRUE) EXCEPT !.role = "page"] >> \o fetch_ics(UrlB)

fetch_freepress_calendar(u) == << Step(NoUrl, u, HdrC, <<2, 5>>, TRUE) >>

fetch_html(u, parser) ==
  IF parser = "freepress"
  THEN << Step(u, NoUrl, HdrC, <<2, 5>>, TRUE) >> \o fetch_freepress_calendar(u)
  ELSE << Step(u, u, HdrC, <<2, 5>>, TRUE) >>

\* _parse_eventbrite_detail(detail_url)
parse_eventbrite_detail(u) ==
  [Step(NoUrl, u, HdrC, <<1, 3>>, FALSE) EXCEPT !.role = "detail"]

\* fetch_eventbrite_discovery with the Playwright crawl made whatever the
\* listing pages gave.
fetch_eventbrite_discovery_headless_always(u) ==
  << Step(u, NoUrl, HdrC, <<1, 3>>, FALSE) >>
  \o [i \in 1..MaxPages |->
        [Step(NoUrl, WithPage(u, i), HdrC, <<1, 3>>, FALSE)
           EXCEPT !.shared = TRUE, !.role = "list"]]
  \o << [Step(NoUrl, NoUrl, HdrC, <<1, 3>>, FALSE)
           EXCEPT !.role = "headless_return"] >>

\* robots_allowed(list_url), the pages (one headers dict for all), then either
\* return fetch_eventbrite_discovery_playwright(...) or the detail pages.
fetch_eventbrite_discovery(u) ==
  << Step(u, NoUrl, HdrC, <<1, 3>>, FALSE) >>
  \o [i \in 1..MaxPages |->
        [Step(NoUrl, WithPage(u, i), HdrC, <<1, 3>>, FALSE)
           EXCEPT !.shared = TRUE, !.role = "list"]]
  \o << [Step(NoUrl, NoUrl, HdrC, <<1, 3>>, FALSE)
           EXCEPT !.when = "fallback", !.role = "headless_return"],
        [parse_eventbrite_detail(<<"https://", "www.eventbrite.com", "/e/", "1">>)
           EXCEPT !.when = "links"] >>

fetch_eventbrite(u, token) ==
  IF HostOf(u) = "www.eventbrite.com" /\ u[3] \in {"/d/", "/e/"}
  THEN fetch_eventbrite_discovery(u)
  ELSE IF token = EmptyStr THEN << >>
  ELSE << Step(NoUrl, u,
               ("Authorization" :> <<"B", "e", "a", "r", "e", "r", " ", "t">>),
               <<2, 5>>, TRUE) >>

fetch_bandsintown(u, app_id) ==
  IF app_id = EmptyStr THEN << >>
  ELSE << Step(NoUrl, u, HdrC, <<2, 5>>, TRUE) >>

\* The start pages, the sitemap fallback (robots.txt, then the sitemap), the
\* detail page, and its per-event ICS link through fetch_ics.
fetch_macaronikid_fxbg ==
  LET base == <<"https://", "fredericksburg.macaronikid.com">>
      ics  == <<"data:", "text/calendar", ";base64", ",", "QUJD">>
  IN  [i \in 1..MaxPages |->
         [Step(NoUrl, WithPage(Append(base, "/events"), i), HdrC, <<1, 3>>, FALSE)
            EXCEPT !.role = "list"]]
      \o << [Step(NoUrl, Append(base, "/robots.txt"), HdrC, <<1, 2>>, FALSE)
               EXCEPT !.when = "nolinks"],
            [Step(NoUrl, Append(base, "/sitemap.xml"), HdrC, <<1, 2>>, FALSE)
               EXCEPT !.when = "prev200", !.role = "list"],
            [Step(NoUrl, base \o <<"/events/", "1">>, HdrC, <<1, 3>>, FALSE)
               EXCEPT !.when = "links"],
            [Step(ics, ics, HdrC, <<2, 5>>, TRUE) EXCEPT !.when = "prev200"] >>

\* The configured sources: type, url and what the type needs.
Sources ==
  { [type |-> "rss", url |-> UrlA, opt |-> EmptyStr],
    [type |-> "ics", url |-> <<"https://", "ex.org", "/events/feed">>, opt |-> EmptyStr],
    [type |-> "thrillshare_ical", url |-> UrlA, opt |-> EmptyStr],
    [type |-> "html", url |-> UrlA, opt |-> EmptyStr],
    [type |-> "html", url |-> UrlB, opt |-> "freepress"],
    [type |-> "eventbrite",
     url |-> <<"https://", "www.eventbrite.com", "/d/", "va--fredericksburg/events">>,
     opt |-> EmptyStr],
    [type |-> "eventbrite", url |-> UrlB, opt |-> <<"t">>],
    [type |-> "bandsintown", url |-> UrlA, opt |-> <<"id">>],
    [type |-> "macaronikid_fxbg", url |-> NoUrl, opt |-> EmptyStr],
    [type |-> "freepress", url |-> UrlB, opt |-> EmptyStr] }

\* main(): the dispatch on the source type.  For macaronikid_fxbg the
\* Playwright crawler is tried before fetch_macaronikid_fxbg()
\* (fetch_macaronikid_fxbg_playwright is a function sources.py always defines;
\* a missing playwright package makes its call raise).
Plan(src) ==
  CASE src.type = "rss"              -> fetch_rss(src.url)
    [] src.type = "ics"              -> fetch_ics(src.url)
    [] src.type = "thrillshare_ical" -> fetch_thrillshare_ical(src.url)
    [] src.type = "html"             -> fetch_html(src.url, src.opt)
    [] src.type = "eventbrite"       -> fetch_eventbrite(src.url, src.opt)
    [] src.type = "bandsintown"      -> fetch_bandsintown(src.url, src.opt)
    [] src.type = "macaronikid_fxbg" ->
         << [Step(NoUrl, NoUrl, HdrC, <<1, 3>>, FALSE)
               EXCEPT !.role = "headless_try"] >> \o fetch_macaronikid_fxbg
    [] src.type = "freepress"        -> fetch_freepress_calendar(src.url)
    [] OTHER                         -> << >>

\* The next request of the plan from position i on that is made; 0 for none.
\* a is the adapter with what it found so far, prev says the previous answer
\* was 200 with a body.
RECURSIVE NextStep(_, _, _, _)
NextStep(plan, i, a, prev) ==
  IF i > Len(plan) THEN 0
  ELSE IF \/ plan[i].when = "always"
          \/ plan[i].when = "any200" /\ a.got200
          \/ plan[i].when = "prev200" /\ prev
          \/ plan[i].when = "links" /\ a.links
          \/ plan[i].when = "nolinks" /\ ~a.links
          \/ plan[i].when = "fallback" /\ (~a.links \/ ~a.first200)
       THEN i
  ELSE NextStep(plan, i + 1, a, prev)

\* The adapter has returned its list to main().
Returned(a) ==
  [NoAdapter EXCEPT !.res = "returned", !.out = a.out, !.pw = a.pw,
                    !.links = a.links, !.first200 = a.first200, !.seen = a.seen,
                    !.gate = a.gate]

\* An exception left the adapter: main() logs it and collects nothing.
RaisedOut(a) == [Returned(a) EXCEPT !.res = "raised", !.out = << >>]

\* The adapter after the request at its position: ok says the answer was 200
\* with a body.
Advance(a, ok) ==
  LET b == [a EXCEPT !.got200 = a.got200 \/ ok]
      j == NextStep(a.plan, a.i + 1, b, ok)
  IN  IF j = 0 THEN Returned(b)
      ELSE [b EXCEPT !.pc = "step", !.i = j]

\* main() takes the next source and calls its adapter.
StartSource ==
  /\ adp.pc = "main" /\ cfg # << >> /\ call[1].pc = "idle"
  /\ LET plan == Plan(Head(cfg)) IN
       adp' = IF plan = << >> THEN Returned(NoAdapter)
              ELSE [NoAdapter EXCEPT !.pc = "step", !.plan = plan, !.i = 1,
                                     !.hdr = plan[1].hdr]
  /\ cfg' = Tail(cfg)
  /\ gated' = {}
  /\ net' = NoNet
  /\ UNCHANGED <<pipe, norm, budget, file, call>>

\* if not robots_allowed(url, user_agent): return []
GateStep ==
  /\ adp.pc = "step" /\ adp.plan[adp.i].gate # NoUrl
  /\ \E o \in RobotsOutcomes :
       LET g == GateCheck(adp.plan[adp.i].gate, o) IN
       /\ adp' = IF g.verdict THEN [adp EXCEPT !.pc = "req", !.gate = g]
                 ELSE Returned([adp EXCEPT !.gate = g])
       /\ gated' = IF g.verdict THEN gated \cup {g.url} ELSE gated
  /\ UNCHANGED <<pipe, norm, budget, file, call, net, cfg>>

\* The adapter is about to fetch: its gate answered allow, or it asks none.
Ready ==
  \/ adp.pc = "req"
  \/ adp.pc = "step" /\ adp.plan[adp.i].gate = NoUrl

\* The headers the adapter passes.
PassedHeaders == IF adp.plan[adp.i].shared THEN adp.hdr ELSE adp.plan[adp.i].hdr

AdpRequestData ==
  /\ Ready /\ adp.plan[adp.i].url # NoUrl
  /\ ReqData(1, adp.plan[adp.i].url, PassedHeaders, adp.plan[adp.i].thr)
  /\ adp' = [adp EXCEPT !.pc = "wait"]
  /\ UNCHANGED <<pipe, norm, budget, file, net, cfg, gated>>

AdpRequestLoad ==
  /\ Ready /\ adp.plan[adp.i].url # NoUrl
  /\ ReqLoad(1, adp.plan[adp.i].url, PassedHeaders, adp.plan[adp.i].thr)
  /\ adp' = [adp EXCEPT !.pc = "wait"]
  /\ UNCHANGED <<pipe, norm, budget, file, net, cfg, gated>>

\* A gate that guards a call of another fetcher: nothing is fetched here.
AdpGateOnly ==
  /\ Ready /\ adp.plan[adp.i].url = NoUrl /\ adp.plan[adp.i].role = "page"
  /\ adp' = Advance(adp, FALSE)
  /\ UNCHANGED <<pipe, norm, budget, file, call, net, cfg, gated>>

\* A call of the Playwright crawler: the import or the browser launch raises,
\* or the crawl returns records, or none.  fetch_eventbrite_discovery returns
\* whatever the call gives; main() wraps its call for macaronikid_fxbg in
\* try/except and goes on with fetch_macaronikid_fxbg() when it got nothing.
AdpHeadless ==
  /\ adp.pc = "step" /\ adp.plan[adp.i].role \in {"headless_return", "headless_try"}
  /\ \E o \in {"raised", "empty", "records"} :
       LET a == [adp EXCEPT !.pw = adp.plan[adp.i].role] IN
       adp' = IF o = "records" THEN Returned([a EXCEPT !.out = <<"rendered">>])
              ELSE IF a.pw = "headless_try" THEN Advance(a, FALSE)
              ELSE IF o = "raised" THEN RaisedOut(a)
              ELSE Returned(a)
  /\ UNCHANGED <<pipe, norm, budget, file, call, net, cfg, gated>>

\* soup.select("a[href*='/e/']") finds a detail link in the body.
HasLinks(body) == body.text = <<"doc1">>

\* handle_evt on the JSON-LD of the body raises: the Event's "name" is not a
\* string (re.sub in _eb_clean_text gets a number or an object).
DetailRaises(body) == body.text = <<"doc3">>

\* req_with_cache returned to the adapter.  A non-empty headers dict was
\* changed in place by the call.
AdpConsume ==
  /\ adp.pc = "wait" /\ call[1].pc = "ret"
  /\ LET st   == adp.plan[adp.i]
         ret  == call[1].ret
         ok   == ret.status = 200 /\ ret.body.len > 0
         kept == IF st.shared THEN [adp EXCEPT !.hdr = call[1].headers] ELSE adp
         seen == IF st.role = "list"
                 THEN [kept EXCEPT !.seen = @ + 1,
                                   !.links = @ \/ (ok /\ HasLinks(ret.body)),
                                   !.first200 = @ \/ (kept.seen < FirstStatuses
                                                        /\ ret.status = 200)]
                 ELSE kept
         got  == IF ok /\ st.role \in {"feed", "detail"}
                 THEN [seen EXCEPT !.out = Append(@, ret.body.text)]
                 ELSE seen
     IN  adp' = IF st.need200 /\ ~ok THEN Returned(seen)
                ELSE IF ok /\ st.role = "detail" /\ DetailRaises(ret.body)
                     THEN RaisedOut(seen)
                ELSE Advance(got, ok)
  /\ call' = [call EXCEPT ![1] = IdleCall]
  /\ UNCHANGED <<pipe, norm, budget, file, net, cfg, gated>>

\* The scheduled job starts main() again: the same sources, the cache file as
\* the run before left it.
RunAgain ==
  /\ adp.pc = "main" /\ cfg = << >> /\ call[1].pc = "idle"
  /\ pipe.run < MaxRuns /\ Cardinality(DOMAIN file.data) <= MaxCached
  /\ cfg' = pipe.sources
  /\ pipe' = [pipe EXCEPT !.run = @ + 1]
  /\ adp' = NoAdapter
  /\ gated' = {}
  /\ net' = NoNet
  /\ UNCHANGED <<norm, budget, file, call>>

InitRun ==
  /\ budget = [w \in Workers |-> MaxConcCalls]
  /\ file = [exists |-> FALSE, torn |-> FALSE, data |-> EmptyDict, by |-> EmptyDict]
  /\ call = [w \in Workers |-> IdleCall]
  /\ net = NoNet
  /\ cfg \in UNION { [1..n -> Sources] : n \in 1..MaxSources }
  /\ adp = NoAdapter
  /\ gated = {}
  /\ norm = NormIdle
  /\ pipe = [pc |-> "fetching", sources |-> cfg, run |-> 1]

\* Runs of main(): the sources one after the other.
NextRun ==
  \/ StartSource
  \/ GateStep
  \/ AdpRequestData
  \/ AdpRequestLoad
  \/ AdpGateOnly
  \/ AdpHeadless
  \/ AdpConsume
  \/ RunAgain
  \/ On304(1)
  \/ On200(1)
  \/ OnRetry(1)
  \/ OnOther(1)
  \/ Exhausted(1)
  \/ SaveOpen(1)
  \/ SaveDump(1)
  \/ JitterSleep(1)

SpecRun == InitRun /\ [][NextRun]_vars

\* ------------------------------------------------- text of a raw record

\* A text is the sequence of its tokens: words, numbers, punctuation marks,
\* " " for one blank, "\n" for a line break, a tag such as "<b>", "&ndash;"
\* and "&mdash;" for the en dash and the em dash.

\* bool(x) of a raw field.
Truthy(f) ==
  CASE f.kind = "none"    -> FALSE
    [] f.kind = "text"    -> f.v # EmptyStr
    [] f.kind = "int"     -> f.v # 0
    [] f.kind = "instant" -> TRUE

\* The token at position i, "" outside the text.
At(s, i) == IF i \in 1..Len(s) THEN s[i] ELSE ""

RECURSIVE LStripChars(_, _)
LStripChars(s, cs) ==
  IF s # << >> /\ Head(s) \in cs THEN LStripChars(Tail(s), cs) ELSE s

RECURSIVE RStripChars(_, _)
RStripChars(s, cs) ==
  IF s # << >> /\ s[Len(s)] \in cs
  THEN RStripChars(SubSeq(s, 1, Len(s) - 1), cs) ELSE s

\* s.strip(chars)
StripChars(s, cs) == RStripChars(LStripChars(s, cs), cs)

Whitespace == {" ", "\n"}

\* s.strip()
Strip(s) == StripChars(s, Whitespace)

\* The first position from i on that holds no token of cs; Len(s) + 1 for none.
RECURSIVE SkipOver(_, _, _)
SkipOver(s, i, cs) ==
  IF i <= Len(s) /\ s[i] \in cs THEN SkipOver(s, i + 1, cs) ELSE i

\* re.sub(r"\s+", " ", s) and WS_RE.sub(" ", s): each run of ws becomes " ".
RECURSIVE CollapseRuns(_, _)
CollapseRuns(s, ws) ==
  IF s = << >> THEN << >>
  ELSE IF Head(s) \in ws
       THEN <<" ">> \o CollapseRuns(SubSeq(s, SkipOver(s, 1, ws), Len(s)), ws)
       ELSE <<Head(s)>> \o CollapseRuns(Tail(s), ws)

Has(s, t) == \E i \in 1..Len(s) : s[i] = t

\* DATE_PREFIX_RE.sub("", s): the text after a leading "Mon DD, YYYY: ".
DatePrefixSub(s) ==
  LET b == SkipOver(s, 2, Whitespace)
      c == SkipOver(s, b + 2, Whitespace)
      e == SkipOver(s, c + 2, Whitespace)
  IN  IF /\ At(s, 1) \in {"Oct", "Sep", "Fun", "Tap"} /\ b > 2
         /\ At(s, b) \in {"23", "27"} /\ At(s, b + 1) = "," /\ c > b + 2
         /\ At(s, c) \in {"2025"} /\ At(s, c + 1) = ":" /\ e > c + 2
      THEN SubSeq(s, e, Len(s))
      ELSE s

\* "at" under re.IGNORECASE
AtWords == {"at", "At", "AT", "aT"}

\* The positions where TRAILING_AT_RE matches: blanks, "at", blanks, and at
\* least one more character.
TrailingAtStarts(s) ==
  { p \in 1..Len(s) :
      /\ s[p] \in Whitespace
      /\ LET q == SkipOver(s, p, Whitespace) IN
           /\ At(s, q) \in AtWords
           /\ At(s, q + 1) \in Whitespace
           /\ SkipOver(s, q + 1, Whitespace) <= Len(s) }

MinOf(S) == CHOOSE x \in S : \A y \in S : x <= y

\* clean_title_and_location peeling the clause whatever location was supplied.
clean_title_and_location_always_peels(raw_title, existing_loc) ==
  LET title == Strip(DatePrefixSub(Strip(raw_title)))
      ps    == TrailingAtStarts(title)
  IN  IF ps # {}
      THEN LET p == MinOf(ps)
               q == SkipOver(title, p, Whitespace)
           IN  [title |-> Strip(SubSeq(title, 1, p - 1)),
                loc   |-> Strip(SubSeq(title, SkipOver(title, q + 1, Whitespace),
                                       Len(title)))]
      ELSE [title |-> title, loc |-> Strip(existing_loc)]

\* _clean_title_and_location(raw_title, existing_loc); loc "" stands for None.
clean_title_and_location(raw_title, existing_loc) ==
  LET title == Strip(DatePrefixSub(Strip(raw_title)))
      loc   == Strip(existing_loc)
      ps    == TrailingAtStarts(title)
  IN  IF loc = EmptyStr /\ ps # {}
      THEN LET p == MinOf(ps)
               q == SkipOver(title, p, Whitespace)
           IN  [title |-> Strip(SubSeq(title, 1, p - 1)),
                loc   |-> Strip(SubSeq(title, SkipOver(title, q + 1, Whitespace),
                                       Len(title)))]
      ELSE [title |-> title, loc |-> loc]

\* ------------------------------------------------------ dates and times

\* tz.gettz(timezone)
LocalZone == "America/New_York"

FallbackHours == 2
DefaultEndHours == 2

\* i + timedelta(hours=n), n below a day.
AddHours(i, n) ==
  LET leap == i.y % 4 = 0 /\ (i.y % 100 # 0 \/ i.y % 400 = 0)
      days == IF i.mo = 2 THEN (IF leap THEN 29 ELSE 28)
              ELSE IF i.mo \in {4, 6, 9, 11} THEN 30 ELSE 31
      next == IF i.d < days THEN [i EXCEPT !.d = i.d + 1]
              ELSE IF i.mo < 12 THEN [i EXCEPT !.d = 1, !.mo = i.mo + 1]
              ELSE [i EXCEPT !.d = 1, !.mo = 1, !.y = i.y + 1]
  IN  IF i.h + n < 24 THEN [i EXCEPT !.h = i.h + n]
      ELSE [next EXCEPT !.h = i.h + n - 24]

\* dateutil: what a token says about the fields of a date.
TokFields(t) ==
  CASE t = "Sep"  -> ("mo" :> 9)
    [] t = "Oct"  -> ("mo" :> 10)
    [] t = "23"   -> ("d" :> 23)
    [] t = "27"   -> ("d" :> 27)
    [] t = "2025" -> ("y" :> 2025)
    [] t = "7pm"  -> ("h" :> 19)
    [] t = "9pm"  -> ("h" :> 21)
    [] t = "11pm" -> ("h" :> 23)
    [] t = "2025-10-23T18:00:30" ->
         ("y" :> 2025) @@ ("mo" :> 10) @@ ("d" :> 23) @@ ("h" :> 18)
         @@ ("mi" :> 0) @@ ("s" :> 30)
    [] t = "2025-10-23T17:00:00Z" ->
         ("y" :> 2025) @@ ("mo" :> 10) @@ ("d" :> 23) @@ ("h" :> 17)
         @@ ("mi" :> 0) @@ ("s" :> 0) @@ ("tz" :> "UTC")
    [] OTHER -> EmptyDict

\* The fields the tokens of a text give (each field at most once in the
\* texts used).
RECURSIVE FieldsOf(_)
FieldsOf(s) ==
  IF s = << >> THEN EmptyDict ELSE TokFields(Head(s)) @@ FieldsOf(Tail(s))

ParseError == [kind |-> "error"]

\* dateutil parser.parse(s, fuzzy=fuzzy, default=default): fields the text
\* does not give come from default; a text with no date raises, and so does an
\* unknown word unless fuzzy.
parser_parse(s, default, fuzzy) ==
  LET fs == FieldsOf(s)
      unknown == \E i \in 1..Len(s) :
                   s[i] \notin {" ", ",", "at", "-"} /\ DOMAIN TokFields(s[i]) = {}
  IN  IF DOMAIN fs = {} \/ (~fuzzy /\ unknown) THEN ParseError
      ELSE Inst([y  |-> DictGet(fs, "y", default.y),
                 mo |-> DictGet(fs, "mo", default.mo),
                 d  |-> DictGet(fs, "d", default.d),
                 h  |-> DictGet(fs, "h", default.h),
                 mi |-> DictGet(fs, "mi", default.mi),
                 s  |-> DictGet(fs, "s", default.s),
                 tz |-> DictGet(fs, "tz", default.tz)])

\* if not dt.tzinfo: dt = dt.replace(tzinfo=local)
WithLocal(f) ==
  IF f.kind = "instant" /\ f.v.tz = "none" THEN Inst([f.v EXCEPT !.tz = LocalZone])
  ELSE f

\* normalize_event.to_dt(x); now is the wall clock, dateutil's default is
\* today at midnight.
to_dt(x, now) ==
  IF ~Truthy(x) THEN NoneField
  ELSE IF x.kind # "text" THEN NoneField
  ELSE LET r == parser_parse(x.v, [now EXCEPT !.h = 0, !.mi = 0, !.s = 0], FALSE)
       IN  IF r = ParseError THEN NoneField ELSE WithLocal(r)

\* re.split(r"\s*[<en dash>\-to]+\s*", ...) inside a token: the part before and the
\* part after its first run of the characters "&ndash;", "-", "t", "o" (any case);
\* << >> for a token with none of them.
SplitTok(t) ==
  CASE t \in {"&ndash;", "-", "to"}  -> << << >>, << >> >>
    [] t = "Trivia"     -> << << >>, <<"rivia">> >>
    [] t = "Night"      -> << <<"Nigh">>, << >> >>
    [] t = "Oct"        -> << << >>, <<"ct">> >>
    [] t \in AtWords    -> << <<"a">>, << >> >>
    [] t = "Tap"        -> << << >>, <<"ap">> >>
    [] t = "Room"       -> << <<"R">>, <<"m">> >>
    [] t = "Eventbrite" -> << <<"Even">>, <<"brite">> >>
    [] t = "Find my tickets" -> << <<"Find my">>, <<"ickets">> >>
    [] t = "Location"   -> << <<"L">>, <<"cation">> >>
    [] t = "Get directions" -> << <<"Ge">>, <<"directions">> >>
    [] OTHER            -> << >>

\* The parts of re.split(..., maxsplit=1).
SplitRange(s) ==
  LET hits == { i \in 1..Len(s) : SplitTok(s[i]) # << >> } IN
  IF hits = {} THEN << s >>
  ELSE LET i  == MinOf(hits)
           st == SplitTok(s[i])
           left  == SubSeq(s, 1, i - 1)
           right == SubSeq(s, i + 1, Len(s))
       IN  << IF st[1] = << >> THEN RStripChars(left, Whitespace) ELSE left \o st[1],
              IF st[2] = << >> THEN LStripChars(right, Whitespace) ELSE st[2] \o right >>

\* parse_when(text, default_tz): (start, end), both None when no start is
\* found.  now is datetime.now().
parse_when(text, now) ==
  IF text = EmptyStr THEN [start |-> NoneField, end |-> NoneField]
  ELSE LET parts == SplitRange(Strip(CollapseRuns(text, Whitespace)))
           start == WithLocal(parser_parse(parts[1], now, TRUE))
       IN  IF start = ParseError THEN [start |-> NoneField, end |-> NoneField]
           ELSE LET e == IF Len(parts) > 1
                         THEN WithLocal(parser_parse(parts[2], start.v, TRUE))
                         ELSE ParseError
                IN  [start |-> start,
                     end   |-> IF e = ParseError
                               THEN Inst(AddHours(start.v, FallbackHours))
                               ELSE e]

\* ------------------------------------------------------------- location

BlobLen == 300

\* len() of a token; "<chrome>" stands for 301 characters of page text.
CharLen(t) ==
  CASE t \in {" ", ",", ":", "|", "\n"} -> 1
    [] t \in {"Tap", "<b>", "Fun"} -> 3
    [] t \in {"Room", "</b>"} -> 4
    [] t = "Location" -> 8
    [] t = "Eventbrite" -> 10
    [] t = "Get directions" -> 14
    [] t = "Find my tickets" -> 15
    [] t = "<chrome>" -> 301
    [] OTHER -> 2

RECURSIVE TextLen(_)
TextLen(s) == IF s = << >> THEN 0 ELSE CharLen(Head(s)) + TextLen(Tail(s))

Tags == {"<b>", "</b>"}

\* main._looks_like_eventbrite_blob(s)
looks_like_eventbrite_blob(s) ==
  /\ s # EmptyStr
  /\ TextLen(s) > BlobLen
  /\ \E h \in { "Eventbrite", "Find my tickets", "Create Events", "Help Center",
               "Contact Sales", "Community Guidelines", "Do Not Sell or Share" } :
       Has(s, h)                                \* EVENTBRITE_CHROME_HINTS

\* The _looks_like_eventbrite_blob local to normalize_event.
looks_like_eventbrite_blob_local(t) ==
  /\ t # EmptyStr
  /\ \/ Has(t, "Eventbrite") /\ Has(t, "Find my tickets")
     \/ Has(t, "Create Events") /\ Has(t, "Help Center")
     \/ TextLen(t) > BlobLen

\* BeautifulSoup(s).get_text(sep): the tags give way to the separator.
GetText(s, sep) == [i \in 1..Len(s) |-> IF s[i] \in Tags THEN sep ELSE s[i]]

LocStripChars == {" ", "-", "&ndash;", "&mdash;", "|"}

\* clean_location_field(raw_loc)
clean_location_field(raw_loc) ==
  IF raw_loc = EmptyStr THEN EmptyStr
  ELSE LET a == IF \E i \in 1..Len(raw_loc) : raw_loc[i] \in Tags
                THEN GetText(raw_loc, " ") ELSE raw_loc
           b == StripChars(CollapseRuns(a, {" "}), LocStripChars)
       IN  IF looks_like_eventbrite_blob(b) THEN EmptyStr ELSE b

\* The lines of a text stripped, the empty ones dropped.
RECURSIVE StripLines(_)
StripLines(s) ==
  IF s = << >> THEN << >>
  ELSE IF Head(s) = "\n" \/ (Head(s) = " " /\ At(s, SkipOver(s, 1, {" "})) \in {"\n", ""})
       THEN LET r == SkipOver(s, 1, Whitespace)
                k == StripLines(SubSeq(s, r, Len(s)))
            IN  IF k = << >> THEN << >> ELSE <<"\n">> \o k
       ELSE <<Head(s)>> \o StripLines(Tail(s))

\* strip_html_to_text(html)
strip_html_to_text(html) ==
  IF html = EmptyStr THEN EmptyStr
  ELSE LStripChars(StripLines(CollapseRuns(GetText(html, "\n"), {" "})), Whitespace)

\* re.split(r"[,\s]{2,}", chunk): a run of two or more separators ends a part.
RECURSIVE SplitParts(_, _, _)
SplitParts(s, i, cur) ==
  IF i > Len(s) THEN << cur >>
  ELSE IF s[i] \in {",", " ", "\n"} /\ SkipOver(s, i, {",", " ", "\n"}) - i >= 2
       THEN << cur >> \o SplitParts(s, SkipOver(s, i, {",", " ", "\n"}), << >>)
       ELSE SplitParts(s, i + 1, Append(cur, s[i]))

\* str.lower() of a token.
LowerTok(t) ==
  CASE t \in {"Tap", "TAP"} -> "tap" [] t = "Room" -> "room"
    [] t = "Trivia" -> "trivia" [] t = "Night" -> "night"
    [] t = "Soccer" -> "soccer" [] t = "Camp" -> "camp"
    [] t = "Story" -> "story" [] t = "Time" -> "time"
    [] t = "Cancelled" -> "cancelled" [] t = "Show" -> "show"
    [] t = "Pickleball" -> "pickleball" [] t = "Jam" -> "jam"
    [] t = "Open" -> "open" [] t = "Stadium" -> "stadium"
    [] t = "Every" -> "every" [] t = "Monday" -> "monday"
    [] t = "FxbgSports.example" -> "fxbgsports.example"
    [] OTHER -> t
\* The parts stripped, the empty ones and the repeated ones (any case) left out.
RECURSIVE DedupParts(_, _)
DedupParts(parts, seen) ==
  IF parts = << >> THEN << >>
  ELSE LET p   == Strip(Head(parts))
           key == [i \in 1..Len(p) |-> LowerTok(p[i])]
       IN  IF p = EmptyStr \/ key \in seen THEN DedupParts(Tail(parts), seen)
           ELSE << p >> \o DedupParts(Tail(parts), seen \cup {key})

\* ", ".join(parts)
RECURSIVE JoinParts(_)
JoinParts(parts) ==
  IF parts = << >> THEN << >>
  ELSE IF Len(parts) = 1 THEN parts[1]
  ELSE parts[1] \o <<",", " ">> \o JoinParts(Tail(parts))

\* _extract_eventbrite_location(big)
extract_eventbrite_location(big) ==
  LET txt == Strip(CollapseRuns(strip_html_to_text(big), {" "}))
      locs == { i \in 1..Len(txt) : txt[i] \in {"Location", "location", "LOCATION"} }
  IN  IF big = EmptyStr THEN EmptyStr
      ELSE IF ~Has(txt, "Eventbrite") \/ ~Has(txt, "Find my tickets") THEN EmptyStr
      ELSE IF locs = {} THEN EmptyStr
      ELSE LET start_idx == SkipOver(txt, MinOf(locs) + 1, {":", " ", "\n"})
               stops == { j \in start_idx..Len(txt) :
                            txt[j] \in { "Get directions", "Good to know",
                                         "Highlights", "About this event", "Tags",
                                         "Organized by", "Report this event",
                                         "Free", "Multiple dates" } }
               stop_idx == IF stops = {} THEN Len(txt) + 1 ELSE MinOf(stops)
               chunk == StripChars(SubSeq(txt, start_idx, stop_idx - 1), LocStripChars)
           IN  StripChars(JoinParts(DedupParts(SplitParts(chunk, 1, << >>), {})),
                          {",", " "})

\* x or ""
TextOr(f) == IF Truthy(f) THEN f.v ELSE EmptyStr

\* _host_from(ev)
host_from(source, link) ==
  LET src == Strip(TextOr(source))
      lnk == Strip(TextOr(link))
      u   == IF lnk # EmptyStr THEN lnk ELSE src
  IN  IF Len(u) >= 2 /\ u[1] \in {"https://", "http://"} THEN u[2] ELSE ""

\* normalize_event: the repair of a location that looks like site chrome;
\* resolved is what resolve_eventbrite_location gives when it is called.
RepairLocation(loc0, desc, host, link, resolved) ==
  LET fixed1 == extract_eventbrite_location(loc0)
      fixed2 == extract_eventbrite_location(desc)
      loc1 == IF looks_like_eventbrite_blob_local(loc0)
              THEN (IF fixed1 # EmptyStr THEN fixed1
                    ELSE IF fixed2 # EmptyStr THEN fixed2 ELSE loc0)
              ELSE loc0
      loc2 == IF /\ loc1 = EmptyStr \/ looks_like_eventbrite_blob_local(loc1)
                 /\ host = "www.eventbrite.com" /\ Truthy(link)
                 /\ resolved # EmptyStr
              THEN resolved ELSE loc1
  IN  IF /\ loc2 = EmptyStr \/ (Has(loc2, "Eventbrite") /\ Has(loc2, "Find my tickets"))
         /\ fixed2 # EmptyStr
      THEN fixed2 ELSE loc2

\* ------------------------------------------------------- normalize_event

\* Rejects without its test of the title.
Rejects_start_only(title, sdt) == sdt.kind = "none"

\* "if not title or not sdt: return None"
Rejects(title, sdt) == title = EmptyStr \/ sdt.kind = "none"

\* The raw records normalize_event is given.

Raws ==
  LET titles ==
        { NoneField, Txt(<<" ">>), Txt(<<"Trivia", " ", "Night">>),
        Txt(<<"Oct", " ", "23", ",", " ", "2025", ":", " ", "Trivia", " ", "at", " ", "Tap">>),
        Txt(<<"Sep", " ", "27", " ", "7pm">>), Num(5) }
      descriptions ==
        { NoneField, Txt(<<"Fun">>),
        Txt(<<"Sep", " ", "27", " ", "11pm", " ", "&ndash;", " ", "9pm">>),
        Txt(<<"Eventbrite", " ", "Find my tickets", " ", "Location", ":", " ",
              "Tap", ",", " ", "TAP", " ", "Get directions">>) }
      starts ==
        { NoneField, Txt(<<"2025-10-23T18:00:30">>), Txt(<<"tbd">>), Num(5),
        Inst([y |-> 2025, mo |-> 10, d |-> 23, h |-> 18, mi |-> 0, s |-> 30, tz |-> "none"]),
        Inst([y |-> 2025, mo |-> 12, d |-> 31, h |-> 23, mi |-> 0, s |-> 0, tz |-> "UTC"]) }
      ends ==
        { NoneField, Txt(<<"2025-10-23T17:00:00Z">>), Txt(<<"tbd">>) }
      locations ==
        { NoneField, Txt(<<"<b>", "Tap", "</b>", " ", " ", "Room", " ", "|">>),
        Txt(<<"Eventbrite", " ", "Find my tickets", " ", "<chrome>">>),
        Txt(<<"Eventbrite", " ", "|", " ", "Find my tickets">>) }
      links ==
        { NoneField, Txt(<<"https://", "www.eventbrite.com", "/e/", "1">>) }
  IN  { [title |-> t, description |-> de, location |-> lo, link |-> li,
         start |-> st, end |-> en, source |-> Txt(<<"eventbrite">>)] :
          t \in titles, de \in descriptions, lo \in locations,
          li \in links, st \in starts, en \in ends }

\* datetime.now() at the call.
Nows ==
  { [y |-> 2025, mo |-> 9, d |-> 1, h |-> 9, mi |-> 30, s |-> 15, tz |-> "none"],
    [y |-> 2026, mo |-> 2, d |-> 28, h |-> 22, mi |-> 45, s |-> 0, tz |-> "none"] }

\* The fields are read and stripped; the title and the location are cleaned.
NormClean ==
  /\ norm.pc = "start"
  /\ LET raw == norm.raw IN
     IF \E f \in {raw.title, raw.description, raw.location} :
          Truthy(f) /\ f.kind # "text"
     THEN norm' = [norm EXCEPT !.pc = "done", !.raised = TRUE]
     ELSE LET ct == clean_title_and_location(Strip(TextOr(raw.title)),
                                             Strip(TextOr(raw.location)))
          IN  norm' = [norm EXCEPT !.pc = "loc",
                                   !.title = ct.title,
                                   !.desc = Strip(TextOr(raw.description)),
                                   !.loc = clean_location_field(ct.loc)]
  /\ UNCHANGED <<budget, file, call, net, cfg, adp, gated, pipe>>

\* The location is repaired when it is empty or looks like site chrome.
NormLocation ==
  /\ norm.pc = "loc"
  /\ \E resolved \in { EmptyStr, <<"Tap", " ", "Room">> } :
       norm' = [norm EXCEPT !.pc = "dates",
                  !.loc = RepairLocation(norm.loc, norm.desc,
                                         host_from(norm.raw.source, norm.raw.link),
                                         norm.raw.link, resolved)]
  /\ UNCHANGED <<budget, file, call, net, cfg, adp, gated, pipe>>

\* sdt and edt from the raw start and end: a datetime is taken as it is, a
\* text goes through to_dt.
NormDates ==
  /\ norm.pc = "dates"
  /\ LET sdt == IF norm.raw.start.kind = "instant" THEN norm.raw.start
                ELSE to_dt(norm.raw.start, norm.now)
         edt == IF norm.raw.end.kind = "instant" THEN norm.raw.end
                ELSE to_dt(norm.raw.end, norm.now)
     IN  norm' = [norm EXCEPT !.pc = IF sdt.kind = "none" THEN "recover" ELSE "decide",
                              !.sdt = sdt, !.edt = edt]
  /\ UNCHANGED <<budget, file, call, net, cfg, adp, gated, pipe>>

\* if not sdt: sdt, edt2 = parse_when(desc or title)
NormRecover ==
  /\ norm.pc = "recover"
  /\ LET pw == parse_when(IF norm.desc # EmptyStr THEN norm.desc ELSE norm.title,
                          norm.now)
     IN  norm' = [norm EXCEPT !.pc = "decide",
                              !.sdt = pw.start,
                              !.edt = IF pw.start.kind # "none" /\ norm.edt.kind = "none"
                                      THEN pw.end ELSE norm.edt]
  /\ UNCHANGED <<budget, file, call, net, cfg, adp, gated, pipe>>

\* The record is rejected, or returned with its end defaulted.
NormDecide ==
  /\ norm.pc = "decide"
  /\ norm' =
       [norm EXCEPT
          !.pc = "done",
          !.ret =
            IF Rejects(norm.title, norm.sdt) THEN NoneField
            ELSE [kind |-> "event",
                  v |-> [title |-> norm.title, description |-> norm.desc,
                         location |-> norm.loc, start |-> norm.sdt,
                         end |-> IF norm.edt.kind = "none"
                                 THEN Inst(AddHours(norm.sdt.v, DefaultEndHours))
                                 ELSE norm.edt,
                         link |-> norm.raw.link, source |-> norm.raw.source]]]
  /\ UNCHANGED <<budget, file, call, net, cfg, adp, gated, pipe>>

\* The next run of the program normalizes the same raw record again, at
\* whatever time that run happens; what the earlier call gave is kept in
\* first for comparison.
NormAgain ==
  /\ norm.pc = "done"
  /\ norm.first.kind = "unset"
  /\ \E now \in Nows :
       norm' = [NormIdle EXCEPT !.pc = "start", !.raw = norm.raw, !.now = now,
                  !.first = [kind |-> "run", raised |-> norm.raised,
                             ret |-> norm.ret]]
  /\ UNCHANGED <<budget, file, call, net, cfg, adp, gated, pipe>>

\* normalize_event(raw) is called on any raw record at any time of day.
InitNorm ==
  /\ budget = [w \in Workers |-> MaxConcCalls]
  /\ file = [exists |-> FALSE, torn |-> FALSE, data |-> EmptyDict, by |-> EmptyDict]
  /\ call = [w \in Workers |-> IdleCall]
  /\ net = NoNet
  /\ cfg = << >>
  /\ adp = NoAdapter
  /\ gated = {}
  /\ \E raw \in Raws, now \in Nows :
       norm = [NormIdle EXCEPT !.pc = "start", !.raw = raw, !.now = now]
  /\ pipe = NoPipe

NextNorm ==
  \/ NormClean
  \/ NormLocation
  \/ NormDates
  \/ NormRecover
  \/ NormDecide
  \/ NormAgain

SpecNorm == InitNorm /\ [][NextNorm]_vars

\* ---------------------------------------------------------------------------
\* main(): the collected raw records are normalized one after the other, each
\* event is finished (location, minutes, category, id, routing, drop rules),
\* then the list is deduplicated, cut to the time window, sorted and written.
\* ---------------------------------------------------------------------------

\* The number of raw records one run collects.
MaxEvents == 2

\* a < b for two datetimes that Python can compare: two naive ones and two of
\* the same zone by their fields, two of different zones by their UTC
\* instants (the local zone is 4 hours behind UTC from April to October and
\* 5 hours otherwise).
Earlier(a, b) ==
  LET utc(i) == IF i.tz = LocalZone
                THEN AddHours(i, IF i.mo \in 4..10 THEN 4 ELSE 5) ELSE i
      x == IF a.tz = b.tz THEN a ELSE utc(a)
      y == IF a.tz = b.tz THEN b ELSE utc(b)
      minutes(i) == ((((i.y - 2000) * 12 + i.mo) * 31 + i.d) * 24 + i.h) * 60 + i.mi
  IN  minutes(x) < minutes(y) \/ (minutes(x) = minutes(y) /\ x.s < y.s)

\* i + timedelta(days=k): the same wall time k days later (earlier for k < 0).
ShiftDays(i, k) ==
  LET ord(y, m, d) ==
        LET yy == IF m <= 2 THEN y - 1 ELSE y
            mm == IF m <= 2 THEN m + 9 ELSE m - 3
        IN  365 * yy + (yy \div 4) - (yy \div 100) + (yy \div 400)
              + ((153 * mm + 2) \div 5) + d
      leap(y) == y % 4 = 0 /\ (y % 100 # 0 \/ y % 400 = 0)
      len(y, m) == IF m = 2 THEN (IF leap(y) THEN 29 ELSE 28)
                   ELSE IF m \in {4, 6, 9, 11} THEN 30 ELSE 31
      n == ord(i.y, i.mo, i.d) + k
      y == CHOOSE c \in (i.y - 2)..(i.y + 2) : ord(c, 1, 1) <= n /\ n <= ord(c, 12, 31)
      m == CHOOSE c \in 1..12 : ord(y, c, 1) <= n /\ n <= ord(y, c, len(y, c))
  IN  [i EXCEPT !.y = y, !.mo = m, !.d = n - ord(y, m, 1) + 1]

\* _looks_like_time_or_range(txt): a clock time with am or pm, noon or
\* midnight somewhere in the text.
looks_like_time_or_range(txt) ==
  \E i \in 1..Len(txt) : LowerTok(txt[i]) \in {"7pm", "9pm", "11pm", "noon", "midnight"}

\* categorize_text(title, desc, rules): the first bucket, in the order
\* recurring, family, adult, one of whose keywords is in the lowered text;
\* then the weekday heuristic; else adult.
categorize_text(title, desc, rules) ==
  LET both == title \o <<" ">> \o desc
      text == [i \in 1..Len(both) |-> LowerTok(both[i])]
      hit(ks) == \E i \in 1..Len(ks) : Has(text, ks[i])
  IN  IF hit(rules.recurring) THEN "recurring"
      ELSE IF hit(rules.family) THEN "family"
      ELSE IF hit(rules.adult) THEN "adult"
      ELSE IF /\ \E w \in {"monday", "tuesday", "wednesday", "thursday",
                           "friday", "saturday", "sunday"} : Has(text, w)
              /\ (Has(text, "every") \/ Has(text, "weekly"))
           THEN "recurring"
      ELSE "adult"

\* hash_event(title, start, location): the SHA-1 of the stripped title, the
\* isoformat of the start and the stripped location joined by "|".
hash_event(title, start, location) ==
  LET off == IF start.tz = "none" THEN << >>
             ELSE IF start.tz = "UTC" THEN <<"+00:00">>
             ELSE IF start.mo \in 4..10 THEN <<"-04:00">> ELSE <<"-05:00">>
      iso == <<ToString(start.y), "-", ToString(start.mo), "-", ToString(start.d),
               "T", ToString(start.h), ":", ToString(start.mi), ":",
               ToString(start.s)>> \o off
  IN  Sha1Hex(Strip(title) \o <<"|">> \o iso \o <<"|">> \o Strip(location))

\* The rule lists of route_to_sports and of is_dropped: a host that ends with
\* a listed domain, a title or a location in which a listed expression is
\* found whatever the case, a title that a listed glob matches.
MatchesRules(rt, title, location, host) ==
  LET low(s) == [i \in 1..Len(s) |-> LowerTok(s[i])]
      ends(h, dom) == h = dom \/ <<h, dom>> \in
                        { <<"www.fxbgsports.example", "fxbgsports.example">>,
                          <<"www.fxbgschools.us", "fxbgschools.us">> }
      search(pat, s) == Has(low(s), LowerTok(pat))
      glob(s, pat) ==
        IF pat # << >> /\ pat[Len(pat)] = "*"
        THEN /\ Len(s) >= Len(pat) - 1
             /\ \A i \in 1..(Len(pat) - 1) : s[i] = pat[i]
        ELSE s = pat
  IN  \/ \E i \in 1..Len(rt.domains) :
           rt.domains[i] # "" /\ ends(host, LowerTok(rt.domains[i]))
      \/ \E i \in 1..Len(rt.title_regex) : search(rt.title_regex[i], title)
      \/ \E i \in 1..Len(rt.title_glob) : glob(low(title), low(rt.title_glob[i]))
      \/ \E i \in 1..Len(rt.location_regex) : search(rt.location_regex[i], location)

route_to_sports(ev, c) ==
  MatchesRules(c.route_to_sports, Strip(ev.title), Strip(ev.location),
               host_from(ev.source, ev.link))

is_dropped(ev, c) ==
  MatchesRules(c.drop, Strip(ev.title), Strip(ev.location),
               host_from(ev.source, ev.link))

\* if is_dropped(ev, cfg): continue; norm.append(ev)
keep_unless_dropped_never(kept, ev, c) == Append(kept, ev)

keep_unless_dropped(kept, ev, c) ==
  IF is_dropped(ev, c) THEN kept ELSE Append(kept, ev)

\* main(): the category an event ends with. The keyword bucket first; a
\* family source or host overrides it; a routing rule overrides both.
category_of_family_last(ev, c) ==
  LET host == host_from(ev.source, ev.link)
  IN  IF \/ ev.source \in {Txt(<<"macaronikid">>), Txt(<<"thrillshare">>)}
         \/ host \in {"www.fxbgschools.us", "fxbgschools.us"}
         \/ host \in {"fredericksburg.macaronikid.com", "macaronikid.com",
                      "macaronikid.com.example"}
      THEN "family"
      ELSE IF route_to_sports(ev, c) THEN "sports"
      ELSE categorize_text(ev.title, ev.description, c.keywords)

category_of_no_family(ev, c) ==
  IF route_to_sports(ev, c) THEN "sports"
  ELSE categorize_text(ev.title, ev.description, c.keywords)

category_of(ev, c) ==
  LET host == host_from(ev.source, ev.link)
  IN  IF route_to_sports(ev, c) THEN "sports"
      ELSE IF \/ ev.source \in {Txt(<<"macaronikid">>), Txt(<<"thrillshare">>)}
              \/ host \in {"www.fxbgschools.us", "fxbgschools.us"}
              \/ host \in {"fredericksburg.macaronikid.com", "macaronikid.com",
                           "macaronikid.com.example"}
      THEN "family"
      ELSE categorize_text(ev.title, ev.description, c.keywords)

\* dedup = {}; for ev in norm: dedup[ev['id']] = ev; dedup.values(): one
\* event per id, at the place of the first event of that id, with the values
\* of the last one.
Dedup_first_wins(evs) ==
  LET marked == [i \in 1..Len(evs) |->
                   [first |-> \A j \in 1..(i - 1) : evs[j].id # evs[i].id,
                    ev |-> evs[i]]]
      kept == SelectSeq(marked, LAMBDA m : m.first)
  IN  [i \in 1..Len(kept) |-> kept[i].ev]

Dedup(evs) ==
  LET last(i) == CHOOSE k \in i..Len(evs) :
                   /\ evs[k].id = evs[i].id
                   /\ \A m \in (k + 1)..Len(evs) : evs[m].id # evs[i].id
      marked == [i \in 1..Len(evs) |->
                   [first |-> \A j \in 1..(i - 1) : evs[j].id # evs[i].id,
                    ev |-> evs[last(i)]]]
      kept == SelectSeq(marked, LAMBDA m : m.first)
  IN  [i \in 1..Len(kept) |-> kept[i].ev]

\* e['end'] >= now - timedelta(days=2) and e['start'] <= horizon
WindowKeeps_strict(e, now, keep_days) ==
  /\ Earlier(ShiftDays(now, -2), e.end)
  /\ Earlier(e.start, ShiftDays(now, keep_days))

WindowKeeps(e, now, keep_days) ==
  /\ ~Earlier(e.end, ShiftDays(now, -2))
  /\ ~Earlier(ShiftDays(now, keep_days), e.start)

\* filtered.sort(key=lambda x: x['start']): a stable sort.
SortByStart_descending(evs) ==
  LET before(i, j) == \/ Earlier(evs[j].start, evs[i].start)
                      \/ (~Earlier(evs[i].start, evs[j].start) /\ i < j)
      rank(i) == Cardinality({j \in 1..Len(evs) : before(j, i)}) + 1
  IN  [p \in 1..Len(evs) |-> evs[CHOOSE i \in 1..Len(evs) : rank(i) = p]]

SortByStart(evs) ==
  LET before(i, j) == \/ Earlier(evs[i].start, evs[j].start)
                      \/ (~Earlier(evs[j].start, evs[i].start) /\ i < j)
      rank(i) == Cardinality({j \in 1..Len(evs) : before(j, i)}) + 1
  IN  [p \in 1..Len(evs) |-> evs[CHOOSE i \in 1..Len(evs) : rank(i) = p]]

\* The raw records a run can collect: from the adapters and from the
\* manual_events of the configuration (YAML reads a timestamp as a datetime
\* without a zone).
PipeRaws ==
  LET trivia == <<"Trivia", " ", "Night">>
      iso == Txt(<<"2025-10-23T18:00:30">>)
      rec(t, de, lo, li, st, so) ==
        [title |-> t, description |-> de, location |-> lo, link |-> li,
         start |-> st, end |-> NoneField, source |-> Txt(so)]
  IN  { rec(Txt(trivia), NoneField, Txt(<<"Tap", " ", "Room">>), NoneField, iso,
            <<"manual">>),
        rec(Txt(<<"Oct", " ", "23", ",", " ", "2025", ":", " ">> \o trivia),
            Txt(<<"Fun">>), Txt(<<"Tap", " ", "Room">>), NoneField,
            Inst([y |-> 2025, mo |-> 10, d |-> 23, h |-> 18, mi |-> 0, s |-> 0,
                  tz |-> LocalZone]), <<"freepress">>),
        rec(Txt(trivia), NoneField, Txt(<<"Tap", " ", "Room">>), NoneField,
            Inst([y |-> 2025, mo |-> 10, d |-> 23, h |-> 22, mi |-> 0, s |-> 0,
                  tz |-> "UTC"]), <<"bandsintown">>),
        rec(Txt(<<"Story", " ", "Time">>), NoneField, NoneField, NoneField,
            Inst([y |-> 2025, mo |-> 10, d |-> 23, h |-> 18, mi |-> 0, s |-> 30,
                  tz |-> "none"]), <<"manual">>),
        rec(Txt(<<"Jam">>),
            Txt(<<"Sep", " ", "27", " ", "11pm", " ", "&ndash;", " ", "9pm">>),
            NoneField, NoneField, NoneField, <<"freepress">>),
        rec(Txt(<<"Soccer", " ", "Camp">>), NoneField, NoneField,
            Txt(<<"https://", "fredericksburg.macaronikid.com", "/events/", "1">>),
            iso, <<"macaronikid">>),
        rec(Txt(trivia), NoneField, NoneField, NoneField,
            Txt(<<"2025-10-23T17:00:00Z">>), <<"thrillshare">>),
        rec(Txt(trivia), NoneField, Txt(<<"7pm">>), NoneField, iso, <<"freepress">>),
        rec(Txt(trivia), Txt(<<"Every", " ", "Monday">>), NoneField, NoneField, iso,
            <<"freepress">>),
        rec(Txt(<<"Cancelled", " ", "Show">>), NoneField, NoneField, NoneField, iso,
            <<"freepress">>),
        rec(Txt(trivia), NoneField, NoneField,
            Txt(<<"https://", "spam.example", "/e/", "1">>), iso, <<"freepress">>),
        rec(Txt(<<"Pickleball", " ", "Open">>), NoneField, NoneField,
            Txt(<<"https://", "www.fxbgschools.us", "/calendar">>), iso,
            <<"https://", "www.fxbgschools.us", "/calendar">>),
        rec(Txt(<<"Story", " ", "Time">>), NoneField, NoneField,
            Txt(<<"https://", "www.fxbgsports.example", "/e/", "1">>), iso,
            <<"freepress">>),
        rec(Txt(<<"Jam">>), NoneField, Txt(<<"Stadium">>), NoneField, iso,
            <<"freepress">>),
        rec(Num(5), NoneField, NoneField, NoneField, iso, <<"freepress">>) }

\* config.yaml: the keyword buckets, the routing rules, the drop rules and
\* max_future_days.
PipeCfgs ==
  LET none == [domains |-> << >>, title_regex |-> << >>, title_glob |-> << >>,
               location_regex |-> << >>]
  IN  { [keywords |-> [recurring |-> <<"weekly">>, family |-> <<"story">>,
                       adult |-> <<"trivia">>],
         route_to_sports |-> [domains |-> <<"FxbgSports.example">>,
                              title_regex |-> <<"soccer">>,
                              title_glob |-> <<<<"Pickleball", "*">>>>,
                              location_regex |-> <<"stadium">>],
         drop |-> [none EXCEPT !.title_regex = <<"cancelled">>,
                               !.domains = <<"spam.example">>],
         max_future_days |-> k] : k \in {30, 365} }

\* The try block around one source: collected += got is reached when the
\* adapter returned, and skipped when it raised.
collect_forgets(collected, outcome) ==
  IF outcome.raised THEN << >> ELSE Append(collected, outcome.rec)

collect(collected, outcome) ==
  IF outcome.raised THEN collected ELSE Append(collected, outcome.rec)

\* main() starts with the sources and the manual events of the configuration.
InitPipe ==
  /\ budget = [w \in Workers |-> MaxConcCalls]
  /\ file = [exists |-> FALSE, torn |-> FALSE, data |-> EmptyDict, by |-> EmptyDict]
  /\ call = [w \in Workers |-> IdleCall]
  /\ net = NoNet
  /\ cfg = << >>
  /\ adp = NoAdapter
  /\ gated = {}
  /\ norm = NormIdle
  /\ \E n \in 1..MaxEvents :
     \E f \in [1..n -> { [raised |-> FALSE, rec |-> r] : r \in PipeRaws }
                        \cup { [raised |-> TRUE, rec |-> NoRaw] }] :
     \E c \in PipeCfgs :
     \E now \in { [y |-> 2025, mo |-> 9, d |-> 1, h |-> 9, mi |-> 30, s |-> 15, tz |-> LocalZone],
                  [y |-> 2025, mo |-> 9, d |-> 23, h |-> 18, mi |-> 0, s |-> 0, tz |-> LocalZone],
                  [y |-> 2025, mo |-> 10, d |-> 25, h |-> 20, mi |-> 0, s |-> 0, tz |-> LocalZone] } :
       LET manual(e) == ~e.raised /\ e.rec.source = Txt(<<"manual">>)
           sources == SelectSeq(f, LAMBDA e : ~manual(e))
           events  == SelectSeq(f, manual)
       IN  pipe = [pc |-> "fetch", sources |-> sources, todo |-> sources,
                   manual_events |-> [i \in 1..Len(events) |-> events[i].rec],
                   collected |-> << >>, fetched |-> << >>, cfg |-> c, now |-> now,
                   norm |-> << >>, dropped |-> {}, dedup |-> << >>,
                   written |-> << >>]

\* for src in cfg['sources']: try: got = <the adapter>; collected += got
\* except Exception: log.exception(...). An entry of sources is what the
\* adapter of one configured source does in this run: it raises, or it gives
\* a raw record.
PipeFetch ==
  /\ pipe.pc = "fetch"
  /\ pipe.todo # << >>
  /\ pipe' = [pipe EXCEPT !.todo = Tail(pipe.todo),
                          !.collected = collect(pipe.collected, Head(pipe.todo))]
  /\ UNCHANGED <<budget, file, call, net, cfg, adp, gated, norm>>

\* for m in cfg.get('manual_events', []): collected.append({...}); what is
\* collected at this point is remembered in fetched.
PipeManual ==
  /\ pipe.pc = "fetch"
  /\ pipe.todo = << >>
  /\ pipe' = [pipe EXCEPT !.pc = "loop",
                          !.collected = pipe.collected \o pipe.manual_events,
                          !.fetched = pipe.collected \o pipe.manual_events]
  /\ UNCHANGED <<budget, file, call, net, cfg, adp, gated, norm>>

\* for raw in collected: ev = normalize_event(raw, timezone=timezone)
PipeTake ==
  /\ pipe.pc = "loop"
  /\ pipe.collected # << >>
  /\ norm' = [NormIdle EXCEPT !.pc = "start", !.raw = Head(pipe.collected),
                              !.now = [pipe.now EXCEPT !.tz = "none"]]
  /\ pipe' = [pipe EXCEPT !.pc = "normalizing", !.collected = Tail(pipe.collected)]
  /\ UNCHANGED <<budget, file, call, net, cfg, adp, gated>>

\* The rest of the loop body. An exception of normalize_event is caught
\* nowhere and ends the run; None skips the record; an event gets its
\* location cleared when it looks like a time, its start and end cut to the
\* minute, its category and its id, and is kept unless a drop rule matches.
PipeRecord ==
  /\ pipe.pc = "normalizing"
  /\ norm.pc = "done"
  /\ norm' = NormIdle
  /\ IF norm.raised THEN pipe' = [pipe EXCEPT !.pc = "raised"]
     ELSE IF norm.ret.kind = "none" THEN pipe' = [pipe EXCEPT !.pc = "loop"]
     ELSE LET r   == norm.ret.v
              ev0 == [title |-> r.title, description |-> r.description,
                      location |-> IF looks_like_time_or_range(r.location)
                                   THEN EmptyStr ELSE r.location,
                      start |-> [r.start.v EXCEPT !.s = 0],
                      end |-> [r.end.v EXCEPT !.s = 0],
                      link |-> r.link, source |-> r.source]
              ev  == [title |-> ev0.title, description |-> ev0.description,
                      location |-> ev0.location, start |-> ev0.start,
                      end |-> ev0.end, link |-> ev0.link, source |-> ev0.source,
                      category |-> category_of(ev0, pipe.cfg),
                      id |-> hash_event(ev0.title, ev0.start, ev0.location)]
          IN  pipe' = [pipe EXCEPT !.pc = "loop",
                         !.norm = keep_unless_dropped(pipe.norm, ev, pipe.cfg),
                         !.dropped = IF is_dropped(ev, pipe.cfg)
                                     THEN pipe.dropped \cup {ev.id}
                                     ELSE pipe.dropped]
  /\ UNCHANGED <<budget, file, call, net, cfg, adp, gated>>

\* The events are deduplicated, cut to the window, sorted and written. The
\* comparison of a datetime without a zone with the zoned clock raises
\* TypeError: of the end of every event, and of the start of an event whose
\* end is inside the window.
PipeFinish ==
  /\ pipe.pc = "loop"
  /\ pipe.collected = << >>
  /\ LET dedup == Dedup(pipe.norm)
         keep  == pipe.cfg.max_future_days
     IN  IF \E i \in 1..Len(dedup) :
              \/ dedup[i].end.tz = "none"
              \/ /\ dedup[i].start.tz = "none"
                 /\ ~Earlier(dedup[i].end, ShiftDays(pipe.now, -2))
         THEN pipe' = [pipe EXCEPT !.pc = "typeerror", !.dedup = dedup]
         ELSE pipe' = [pipe EXCEPT !.pc = "written", !.dedup = dedup,
                         !.written = SortByStart(SelectSeq(dedup,
                             LAMBDA e : WindowKeeps(e, pipe.now, keep)))]
  /\ UNCHANGED <<budget, file, call, net, cfg, adp, gated, norm>>

NextPipe ==
  \/ PipeFetch
  \/ PipeManual
  \/ PipeTake
  \/ NormClean
  \/ NormLocation
  \/ NormDates
  \/ NormRecover
  \/ NormDecide
  \/ PipeRecord
  \/ PipeFinish

SpecPipe == InitPipe /\ [][NextPipe]_vars


\* hash_event is applied to two triples of a title, a start and a location.
InitHash ==
  /\ budget = [w \in Workers |-> MaxConcCalls]
  /\ file = [exists |-> FALSE, torn |-> FALSE, data |-> EmptyDict, by |-> EmptyDict]
  /\ call = [w \in Workers |-> IdleCall]
  /\ net = NoNet
  /\ cfg = << >>
  /\ adp = NoAdapter
  /\ gated = {}
  /\ norm = NormIdle
  /\ LET s1  == [y |-> 2025, mo |-> 10, d |-> 23, h |-> 18, mi |-> 0, s |-> 0,
                 tz |-> LocalZone]
         s2  == [s1 EXCEPT !.mi = 30]
         iso == <<"2025", "-", "10", "-", "23", "T", "18", ":", "0", ":", "0", "-04:00">>
         triples ==
           { [title |-> t, start |-> st, location |-> l] :
               t \in { <<"A">>, <<"A", " ">>, <<"A", "|">> \o iso \o <<"|", "B">> },
               st \in { s1, s2 },
               l \in { << >>, <<"B">>, <<"C">>, <<"B", "|">> \o iso \o <<"|", "C">> } }
     IN  \E a \in triples, b \in triples :
           pipe = [pc |-> "hash", a |-> a, b |-> b, ida |-> << >>, idb |-> << >>]

HashBoth ==
  /\ pipe.pc = "hash"
  /\ pipe' = [pipe EXCEPT !.pc = "hashed",
                 !.ida = hash_event(pipe.a.title, pipe.a.start, pipe.a.location),
                 !.idb = hash_event(pipe.b.title, pipe.b.start, pipe.b.location)]
  /\ UNCHANGED <<budget, file, call, net, cfg, adp, gated, norm>>

SpecHash == InitHash /\ [][HashBoth]_vars


\* ------------------------------------------------------------- properties

\* The call of worker w went to the network (it is not the data: fast path).
NetCall(w) == call[w].loads = 1

\* C1: a call on a non-data URL whose every attempt gets 429/500/502/503/504
\* or raises requests.RequestException makes exactly max_retries GET attempts,
\* never more, then returns (599, "", {}) without raising, and leaves the
\* persisted cache store as it was.
C1_RetriesExhausted ==
  \A w \in Workers :
    /\ call[w].gets <= MaxRetries
    /\ (call[w].pc = "ret" /\ NetCall(w) /\ call[w].gets = call[w].attempt) =>
         /\ call[w].gets = MaxRetries
         /\ call[w].ret = Result(599, EmptyBody, EmptyDict)
         /\ call[w].saves = 0
         /\ file.data = call[w].pre

C1_Witness ==
  /\ call[1].pc = "ret" /\ NetCall(1) /\ call[1].gets = call[1].attempt
  /\ call[1].gets = 3 /\ call[1].slept = 7
  /\ call[1].pre # EmptyDict

\* C2: a call that the server answers with 304 returns the body of the cache
\* entry stored under its key, applies no politeness delay and does not write
\* the store: the store (etag, last-modified, fetched-at and body of every
\* entry) is the same after the call as before it.
C2_NotModified ==
  \A w \in Workers :
    (call[w].pc = "ret" /\ NetCall(w) /\ call[w].ret.status = 304) =>
      /\ call[w].key \in DOMAIN call[w].pre =>
           call[w].ret.body = call[w].pre[call[w].key].body
      /\ call[w].polite = 0
      /\ call[w].saves = 0
      /\ file.data = call[w].pre

C2_Witness ==
  /\ call[1].pc = "ret" /\ call[1].ret.status = 304
  /\ call[1].key \in DOMAIN call[1].pre
  /\ call[1].ret.body.len = BodyCap
  /\ call[1].gets = 1

\* C3: after a call that received 200 or 201, the entry under the call's key
\* holds the response's etag and last-modified and the body cut to 500000
\* characters, the politeness delay (within the throttle window) has been
\* applied, and the entries under every other key are unchanged.
C3_StoredOnSuccess ==
  \A w \in Workers :
    (call[w].pc = "ret" /\ NetCall(w) /\ call[w].ret.status \in {200, 201}) =>
      LET k == call[w].key IN
      /\ k \in DOMAIN file.data
      /\ file.data[k].etag = call[w].ret.meta.etag
      /\ file.data[k].last_modified = call[w].ret.meta.last_modified
      /\ file.data[k].body.text = call[w].ret.body.text
      /\ file.data[k].body.len = Min(call[w].ret.body.len, BodyCap)
      /\ call[w].polite >= call[w].throttle[1]
      /\ call[w].polite <= call[w].throttle[2]
      /\ call[w].throttle[1] >= 1
      /\ DOMAIN file.data = DOMAIN call[w].pre \cup {k}
      /\ \A j \in DOMAIN call[w].pre \ {k} : file.data[j] = call[w].pre[j]

C3_Witness ==
  /\ call[1].pc = "ret" /\ NetCall(1) /\ call[1].ret.status = 201
  /\ call[1].ret.body.len > BodyCap
  /\ call[1].key \in DOMAIN call[1].pre
  /\ DOMAIN call[1].pre # {call[1].key}

\* C4: a body returned on a 304 was stored by an earlier 200/201 response to a
\* request with the same URL, Authorization and User-Agent: requests that
\* differ in one of them never share a cache key.
C4_NoCrossIdentityBody ==
  \A w \in Workers :
    (call[w].pc = "ret" /\ NetCall(w) /\ call[w].ret.status = 304
       /\ call[w].key \in DOMAIN call[w].pre) =>
      file.by[call[w].key] = Identity(call[w].url, call[w].headers)

\* C5: a call on a data: URL makes no network request and neither reads nor
\* writes the cache store; it returns 200 with the decoded body or, when the
\* URL has no comma or the decoding fails, (400, "", {}), and never raises.
C5_DataUrl ==
  \A w \in Workers :
    (call[w].pc = "ret" /\ IsDataUrl(call[w].url)) =>
      /\ call[w].gets = 0 /\ call[w].loads = 0 /\ call[w].saves = 0
      /\ file.data = call[w].pre
      /\ ~call[w].ret.raised
      /\ call[w].ret.status \in {200, 400}
      /\ call[w].ret.status = 400 => call[w].ret.body = EmptyBody
      /\ call[w].ret.meta = EmptyDict
      /\ FirstComma(call[w].url) = 0 => call[w].ret.status = 400
      /\ call[w].url = <<"data:", "text/calendar", ";base64", ",", "QUJD">> =>
           call[w].ret.status = 200 /\ call[w].ret.body.len = 3
      /\ call[w].url = <<"data:", "text/calendar", ";BASE64", ",", "QUJD", "QQ">> =>
           call[w].ret.status = 400

C5_Witness ==
  /\ call[1].pc = "ret" /\ IsDataUrl(call[1].url)
  /\ FirstComma(call[1].url) # 0
  /\ call[1].ret.status = 400
  /\ file.data # EmptyDict

\* C8: accesses to the store are serialized: when two calls overlap and both
\* received 200/201, the store afterwards holds the entries both wrote.
C8_NoLostEntry ==
  (\A w \in Workers : call[w].pc = "ret" /\ NetCall(w)
                      /\ call[w].ret.status \in {200, 201}) =>
    \A w \in Workers :
      /\ call[w].key \in DOMAIN file.data
      /\ ~file.torn

\* C6: every GET issued through req_with_cache, for any source kind, follows a
\* robots_allowed check of that URL that answered allow.
C6_EveryGetGated ==
  (adp.pc = "wait" /\ call[1].gets > 0) => call[1].url \in gated

\* C7: when fetching or parsing the robots policy fails, robots_allowed
\* answers allow.
C7_FailOpen ==
  (adp.gate.url # NoUrl /\ adp.gate.outcome \notin {"ok_allow", "ok_disallow"}
     /\ adp.gate.outcome # "none") => adp.gate.verdict

\* C9: within one adapter's crawl, a request to a host whose previous answer
\* was not 304 is sent only after a delay has elapsed.
C9_DelayBetweenRequests ==
  [][ (adp.pc = "wait" /\ call'[1].gets = call[1].gets + 1
         /\ net.host = HostOf(call[1].url))
      => net.last # "nodelay" ]_vars

\* C10: normalize_event returns None exactly when, after the title cleanup
\* and the start fallbacks, the title is empty or there is no start; every
\* event it returns has a non-empty title and a start.
C10_RejectRule ==
  (norm.pc = "done" /\ ~norm.raised) =>
     /\ (norm.ret.kind = "none") <=> (norm.title = EmptyStr \/ norm.sdt.kind = "none")
     /\ norm.ret.kind = "event" =>
          /\ norm.ret.v.title # EmptyStr
          /\ Strip(norm.ret.v.title) = norm.ret.v.title
          /\ norm.ret.v.start.kind = "instant"

\* A record with an empty title is rejected although the free-text recovery
\* found a start.
C10_Witness ==
  /\ norm.pc = "done" /\ ~norm.raised
  /\ norm.ret.kind = "none"
  /\ norm.raw.start.kind = "none" /\ norm.sdt.kind = "instant"
  /\ norm.title = EmptyStr

\* C14: hash_event gives different ids to two triples that differ in the
\* title, in the start or in the location (SHA-1 taken as free of
\* collisions).
C14_Injective ==
  pipe.pc = "hashed" => (pipe.ida = pipe.idb => pipe.a = pipe.b)

\* C13: two calls of normalize_event on the same raw record give the same
\* outcome: the same title, description, location, start, end, link and
\* source, whatever the wall clock reads at either call and whatever a
\* remote page answers.
C13_SameRawSameEvent ==
  (norm.pc = "done" /\ norm.first.kind = "run") =>
     (norm.raised = norm.first.raised /\ norm.ret = norm.first.ret)

\* C11: every event the pipeline writes ends no earlier than it starts.
C11_EndNotBeforeStart ==
  pipe.pc = "written" =>
    \A i \in 1..Len(pipe.written) :
      ~Earlier(pipe.written[i].end, pipe.written[i].start)

\* C12: the start and the end of every event the loop keeps carry a time
\* zone, and the comparison with the zoned clock in the window filter does
\* not fail.
C12_ZonedInstants ==
  pipe.pc # "off" =>
    /\ pipe.pc # "typeerror"
    /\ \A i \in 1..Len(pipe.norm) :
         pipe.norm[i].start.tz # "none" /\ pipe.norm[i].end.tz # "none"

\* C15: two events the loop keeps whose cleaned titles and cleaned
\* locations are equal and whose starts, cut to the minute, are the same
\* instant (in whatever zone each is written) have the same id.
C15_CosmeticSameId ==
  pipe.pc # "off" =>
    \A i, j \in 1..Len(pipe.norm) :
      LET a == pipe.norm[i]
          b == pipe.norm[j]
      IN  ( /\ a.title = b.title /\ a.location = b.location
            /\ (a.start.tz = "none") = (b.start.tz = "none")
            /\ ~Earlier(a.start, b.start) /\ ~Earlier(b.start, a.start) )
          => a.id = b.id

\* C16: the written events have pairwise different ids, and each of them has
\* the field values of the last event of its id that the loop kept.
C16_LastWriteWins ==
  pipe.pc = "written" =>
    /\ \A i, j \in 1..Len(pipe.written) :
         pipe.written[i].id = pipe.written[j].id => i = j
    /\ \A i \in 1..Len(pipe.written) :
         \E k \in 1..Len(pipe.norm) :
           /\ pipe.norm[k] = pipe.written[i]
           /\ \A m \in (k + 1)..Len(pipe.norm) : pipe.norm[m].id # pipe.written[i].id

\* Two events of one id with different descriptions were kept, the first
\* from a plain title with seconds in its start, the second from a title
\* with a date prefix; the second one is written.
C16_Witness ==
  /\ pipe.pc = "written"
  /\ Len(pipe.norm) = 2
  /\ pipe.norm[1].id = pipe.norm[2].id
  /\ pipe.norm[1].description # pipe.norm[2].description
  /\ pipe.written = <<pipe.norm[2]>>

\* C17: a deduplicated event is written exactly when its end is not earlier
\* than the clock minus two days and its start is not later than the clock
\* plus max_future_days; an event exactly on either limit is written.
C17_WindowInclusive ==
  pipe.pc = "written" =>
    \A i \in 1..Len(pipe.dedup) :
      LET e == pipe.dedup[i] IN
      (\E j \in 1..Len(pipe.written) : pipe.written[j] = e)
        <=> ( /\ ~Earlier(e.end, ShiftDays(pipe.now, -2))
              /\ ~Earlier(ShiftDays(pipe.now, pipe.cfg.max_future_days), e.start) )

\* One event ends exactly two days before the clock and is written; another
\* one ended earlier and is left out.
C17_Witness ==
  /\ pipe.pc = "written"
  /\ \E j \in 1..Len(pipe.written) :
       pipe.written[j].end = ShiftDays(pipe.now, -2)
  /\ \E i \in 1..Len(pipe.dedup) :
       /\ Earlier(pipe.dedup[i].end, ShiftDays(pipe.now, -2))
       /\ \A j \in 1..Len(pipe.written) : pipe.written[j] # pipe.dedup[i]

\* C18: the written sequence is in ascending order of start.
C18_SortedByStart ==
  pipe.pc = "written" =>
    \A i, j \in 1..Len(pipe.written) :
      i < j => ~Earlier(pipe.written[j].start, pipe.written[i].start)

\* Two events pass the filter in the order later start, earlier start, and
\* are written the other way round.
C18_Witness ==
  /\ pipe.pc = "written"
  /\ Len(pipe.written) = 2
  /\ pipe.dedup = <<pipe.written[2], pipe.written[1]>>
  /\ Earlier(pipe.written[1].start, pipe.written[2].start)

\* C19: every written event that a rule of route_to_sports matches (by the
\* host, the title or the location) has the category sports.
C19_RouteWins ==
  pipe.pc = "written" =>
    \A i \in 1..Len(pipe.written) :
      route_to_sports(pipe.written[i], pipe.cfg) => pipe.written[i].category = "sports"

\* A written event of the source macaronikid, which the family override
\* applies to, whose title a routing expression matches.
C19_Witness ==
  /\ pipe.pc = "written"
  /\ \E i \in 1..Len(pipe.written) :
       /\ pipe.written[i].source = Txt(<<"macaronikid">>)
       /\ route_to_sports(pipe.written[i], pipe.cfg)
       /\ pipe.written[i].category = "sports"

\* C20: every written event whose source is macaronikid or thrillshare, or
\* whose host ends with fxbgschools.us or contains macaronikid.com, has the
\* category family.
C20_FamilySources ==
  pipe.pc = "written" =>
    \A i \in 1..Len(pipe.written) :
      LET e == pipe.written[i]
          host == host_from(e.source, e.link)
      IN  ( \/ e.source \in {Txt(<<"macaronikid">>), Txt(<<"thrillshare">>)}
            \/ host \in {"www.fxbgschools.us", "fredericksburg.macaronikid.com"} )
          => e.category = "family"

\* C20, amended: every such event that no rule of route_to_sports matches has
\* the category family, whatever its keyword bucket is; one that a rule
\* matches has the category sports.
C20_FamilyUnlessRouted ==
  pipe.pc = "written" =>
    \A i \in 1..Len(pipe.written) :
      LET e == pipe.written[i]
          host == host_from(e.source, e.link)
      IN  ( \/ e.source \in {Txt(<<"macaronikid">>), Txt(<<"thrillshare">>)}
            \/ host \in {"www.fxbgschools.us", "fredericksburg.macaronikid.com"} )
          => e.category = IF route_to_sports(e, pipe.cfg) THEN "sports" ELSE "family"

\* A written thrillshare event that no routing rule matches, whose title has
\* a keyword of the adult bucket: its category is family.
C20_Witness ==
  /\ pipe.pc = "written"
  /\ \E i \in 1..Len(pipe.written) :
       LET e == pipe.written[i] IN
       /\ e.source = Txt(<<"thrillshare">>)
       /\ ~route_to_sports(e, pipe.cfg)
       /\ categorize_text(e.title, e.description, pipe.cfg.keywords) = "adult"
       /\ e.category = "family"

\* C21: a text that has a weekday name and one of the words every and weekly
\* is categorized as recurring, whatever keywords of the family or the adult
\* bucket it has.
C21_HeuristicOverrides ==
  pipe.pc # "off" =>
    \A i \in 1..Len(pipe.norm) :
      LET e == pipe.norm[i]
          both == e.title \o <<" ">> \o e.description
          text == [k \in 1..Len(both) |-> LowerTok(both[k])]
      IN  ( /\ \E w \in {"monday", "tuesday", "wednesday", "thursday", "friday",
                          "saturday", "sunday"} : Has(text, w)
            /\ (Has(text, "every") \/ Has(text, "weekly")) )
          => categorize_text(e.title, e.description, pipe.cfg.keywords) = "recurring"

C23_SourceIsolation ==
  /\ pipe.pc = "fetch" =>
       LET done == SubSeq(pipe.sources, 1, Len(pipe.sources) - Len(pipe.todo))
           good == SelectSeq(done, LAMBDA e : ~e.raised)
       IN  pipe.collected = [i \in 1..Len(good) |-> good[i].rec]
  /\ pipe.pc \in {"loop", "normalizing", "raised", "typeerror", "written"} =>
       LET good == SelectSeq(pipe.sources, LAMBDA e : ~e.raised)
       IN  pipe.fetched = [i \in 1..Len(good) |-> good[i].rec] \o pipe.manual_events

\* The adapter of the first source raised, the second source gave a record,
\* and the event of that record is written.
C23_Witness ==
  /\ pipe.pc = "written"
  /\ Len(pipe.sources) = 2
  /\ pipe.sources[1].raised /\ ~pipe.sources[2].raised
  /\ Len(pipe.written) = 1

\* C24: no raw record ends the run: the normalizing loop never stops on an
\* exception of normalize_event, and the window filter never stops on an
\* event without a zone.
C24_NoRecordAborts ==
  pipe.pc \notin {"raised", "typeerror"}

\* C25: no exception raised while one detail page is parsed, and no failure of
\* the headless fallback crawl, leaves an adapter: every adapter call returns
\* to main() with its list.
C25_NothingLeavesAdapter ==
  adp.res # "raised"

\* C28 as stated: for every source kind a headless crawl starts only after
\* the plain HTTP crawl of the source has fetched listing pages and found no
\* detail link.
C28_HeadlessOnlyFallback ==
  [][ (adp.pw = "no" /\ adp'.pw # "no") => (adp.seen > 0 /\ ~adp.links) ]_vars

\* C28: in the Eventbrite discovery adapter the headless crawl starts only
\* after every listing page was fetched over plain HTTP and either no detail
\* link was found or none of the first three pages answered 200; for
\* macaronikid_fxbg the headless crawler is the first thing tried, before any
\* plain HTTP request of the source.
C28_HeadlessOrder ==
  [][ (adp.pw = "no" /\ adp'.pw # "no") =>
        IF adp'.pw = "headless_return"
        THEN adp.seen = MaxPages /\ (~adp.links \/ ~adp.first200)
        ELSE adp.seen = 0 /\ adp.i = 1 /\ ~adp.got200 ]_vars

C28_Witness ==
  /\ adp.pw = "headless_return" /\ adp.res = "returned"
  /\ adp.seen = MaxPages /\ ~adp.links /\ adp.first200
  /\ adp.out = <<"rendered">>

\* C29: a GET sends If-None-Match and If-Modified-Since only as the cache
\* entry under the request's own key gives them: none when the key has no
\* entry, also when the caller passes the same headers dict for every page.
\* (requests sends no header whose value is None.)
C29_ConditionalFromOwnEntry ==
  (adp.pc = "wait" /\ call[1].pc = "get") =>
     /\ ("If-None-Match" \in DOMAIN call[1].headers
           /\ call[1].headers["If-None-Match"] # <<"None">>) =>
          /\ "etag" \in DOMAIN call[1].entry
          /\ call[1].headers["If-None-Match"] = call[1].entry.etag
     /\ ("If-Modified-Since" \in DOMAIN call[1].headers
           /\ call[1].headers["If-Modified-Since"] # <<"None">>) =>
          /\ "last_modified" \in DOMAIN call[1].entry
          /\ call[1].headers["If-Modified-Since"] = call[1].entry.last_modified

\* C30: when a feed's conditional GET is answered 304 and the cache holds the
\* document, the adapter yields the records of that document, as the run that
\* fetched it fresh did.
C30_NotModifiedKeepsEvents ==
  [][ (/\ adp.pc = "wait" /\ call[1].pc = "ret" /\ adp'.pc # "wait"
       /\ adp.plan[adp.i].role = "feed"
       /\ call[1].ret.status = 304 /\ call[1].ret.body.len > 0)
      => \E k \in 1..Len(adp'.out) : adp'.out[k] = call[1].ret.body.text ]_vars

\* C26: the location of a normalized event is never site chrome: neither
\* longer than the threshold with a hallmark phrase in it, nor holding a
\* hallmark pair ("Eventbrite" with "Find my tickets", "Create Events" with
\* "Help Center").
C26_NoChromeLocation ==
  (norm.pc = "done" /\ norm.ret.kind = "event") =>
     LET loc == norm.ret.v.location IN
     /\ ~looks_like_eventbrite_blob(loc)
     /\ ~(Has(loc, "Eventbrite") /\ Has(loc, "Find my tickets"))
     /\ ~(Has(loc, "Create Events") /\ Has(loc, "Help Center"))

\* C27: the trailing "at <Location>" clause leaves the cleaned title only when
\* the raw record supplies no location, and then it is the location
\* ("Oct 23, 2025: Trivia at Tap" gives the title "Trivia" and the location
\* "Tap"); with a supplied location the title keeps its clause and the
\* location is the supplied one, cleaned.
C27_PeelOnlyWithoutLocation ==
  (norm.pc = "loc") =>
     LET t  == Strip(DatePrefixSub(Strip(TextOr(norm.raw.title))))
         l  == Strip(TextOr(norm.raw.location))
         ps == TrailingAtStarts(t)
     IN  /\ l # EmptyStr => (norm.title = t /\ norm.loc = clean_location_field(l))
         /\ (l = EmptyStr /\ ps = {}) => (norm.title = t /\ norm.loc = EmptyStr)
         /\ (l = EmptyStr /\ ps # {}) =>
              \E p \in ps :
                 /\ norm.title = Strip(SubSeq(t, 1, p - 1))
                 /\ norm.title \o SubSeq(t, Len(norm.title) + 1, Len(t)) = t
                 /\ norm.loc # EmptyStr
                 /\ SubSeq(t, Len(t) - Len(norm.loc) + 1, Len(t)) = norm.loc
         /\ (l = EmptyStr /\ norm.raw.title =
                Txt(<<"Oct", " ", "23", ",", " ", "2025", ":", " ",
                      "Trivia", " ", "at", " ", "Tap">>))
              => (norm.title = <<"Trivia">> /\ norm.loc = <<"Tap">>)

C27_Witness ==
  /\ norm.pc = "loc"
  /\ norm.raw.location = NoneField
  /\ norm.raw.title = Txt(<<"Oct", " ", "23", ",", " ", "2025", ":", " ",
                            "Trivia", " ", "at", " ", "Tap">>)
  /\ norm.title = <<"Trivia">> /\ norm.loc = <<"Tap">>

====
